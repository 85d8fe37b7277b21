--------------------------- MODULE Records_proofs ---------------------------
(***************************************************************************)
(* The parts that keep records, each for every value of its constants:     *)
(* holders of crews, the fleet's audit trail and its reports, the          *)
(* curtailment schedule and its settlements, certificates and services,    *)
(* sessions and heartbeats.                                                *)
(***************************************************************************)
EXTENDS WorkOrders, Fleet, GridEnergy, Upkeep, Connections,
        FiniteSetTheorems, SequenceTheorems, WellFoundedInduction, TLAPS

-----------------------------------------------------------------------------
(* WorkOrders: a crew has one holder, but for one more for each release.   *)
(* The count is an invariant of its own once the holders of a crew are     *)
(* known to be finitely many.                                              *)

Order == [status : {"pending", "scheduled", "in_progress", "done"}, crew : Ids \cup {NoCrew}]

CallTypes ==
  /\ DOMAIN call = Callers
  /\ \A c \in Callers :
       /\ call[c].pc \in {"read", "crew"} => call[c].preferred \in Ids \cup {NoCrew}
       /\ call[c].pc = "write" => call[c].crew \in Ids

OrdersTypeOK ==
  /\ orders \in Seq(Order) /\ life \in Seq(Order)
  /\ free \in [Ids -> BOOLEAN]
  /\ released \in [Ids -> Nat]
  /\ CallTypes

\* An order has a crew exactly when it is no longer pending.
CrewTells(list) ==
  \A o \in DOMAIN list : (list[o].crew = NoCrew) = (list[o].status = "pending")

Budget(k) == released[k] + (IF k \in Crews THEN 1 ELSE 0)

\* Who holds crew k, the pool's own mark among them, is within its budget.
Held(k) ==
  /\ IsFiniteSet(Holders(k))
  /\ Cardinality(Holders(k)) + (IF free[k] THEN 1 ELSE 0) <= Budget(k)

OrdersInv == OrdersTypeOK /\ CrewTells(orders) /\ CrewTells(life) /\ \A k \in Ids : Held(k)

-----------------------------------------------------------------------------

\* Fewer holders cost nothing.
LEMMA HeldByFewer ==
  ASSUME NEW k \in Ids, Held(k), OrdersTypeOK, Holders(k)' \subseteq Holders(k),
         free'[k] => free[k], released' = released
  PROVE  Held(k)'
<1>1. /\ IsFiniteSet(Holders(k)') /\ Cardinality(Holders(k)') <= Cardinality(Holders(k))
      /\ Cardinality(Holders(k)') \in Nat /\ Cardinality(Holders(k)) \in Nat
  BY FS_Subset, FS_CardinalityType DEF Held
<1>2. released[k] \in Nat
  BY DEF OrdersTypeOK
<1> QED
  BY <1>1, <1>2 DEF Held, Budget

\* One holder more is paid for by the pool's mark.
LEMMA HeldByOneMore ==
  ASSUME NEW k \in Ids, Held(k), OrdersTypeOK, NEW h, Holders(k)' \subseteq Holders(k) \cup {h},
         free[k], ~free'[k], released' = released
  PROVE  Held(k)'
<1>1. IsFiniteSet(Holders(k)) /\ Cardinality(Holders(k)) \in Nat
  BY FS_CardinalityType DEF Held
<1>2. /\ IsFiniteSet(Holders(k) \cup {h})
      /\ Cardinality(Holders(k) \cup {h}) <= Cardinality(Holders(k)) + 1
      /\ Cardinality(Holders(k) \cup {h}) \in Nat
  <2> DEFINE S == Holders(k)
  <2>1. IsFiniteSet(S) /\ Cardinality(S) \in Nat
    BY <1>1
  <2> HIDE DEF S
  <2>2. /\ IsFiniteSet(S \cup {h})
        /\ Cardinality(S \cup {h}) = IF h \in S THEN Cardinality(S) ELSE Cardinality(S) + 1
    BY <2>1, FS_AddElement
  <2>3. Cardinality(S \cup {h}) <= Cardinality(S) + 1 /\ Cardinality(S \cup {h}) \in Nat
    BY <2>1, <2>2
  <2> QED
    BY <2>2, <2>3 DEF S
<1>3. /\ IsFiniteSet(Holders(k)') /\ Cardinality(Holders(k)') \in Nat
      /\ Cardinality(Holders(k)') <= Cardinality(Holders(k) \cup {h})
  BY <1>2, FS_Subset, FS_CardinalityType
<1>4. released[k] \in Nat
  BY DEF OrdersTypeOK
<1> QED
  BY <1>1, <1>2, <1>3, <1>4 DEF Held, Budget

\* A holder that is another's successor.
LEMMA HeldBySuccessor ==
  ASSUME NEW k \in Ids, Held(k), OrdersTypeOK, NEW g \in Holders(k), NEW h,
         Holders(k)' \subseteq (Holders(k) \ {g}) \cup {h},
         free' = free, released' = released
  PROVE  Held(k)'
<1>1. IsFiniteSet(Holders(k)) /\ Cardinality(Holders(k)) \in Nat
  BY FS_CardinalityType DEF Held
<1> DEFINE G == Holders(k) \ {g}
           H == G \cup {h}
<1>2. IsFiniteSet(G) /\ Cardinality(G) = Cardinality(Holders(k)) - 1 /\ Cardinality(G) \in Nat
  BY <1>1, FS_RemoveElement, FS_CardinalityType
<1>3. IsFiniteSet(H) /\ Cardinality(H) <= Cardinality(Holders(k)) /\ Cardinality(H) \in Nat
  <2> HIDE DEF G
  <2>1. /\ IsFiniteSet(H)
        /\ Cardinality(H) = IF h \in G THEN Cardinality(G) ELSE Cardinality(G) + 1
    BY <1>2, FS_AddElement
  <2> QED
    BY <2>1, <1>1, <1>2
<1>4. /\ IsFiniteSet(Holders(k)') /\ Cardinality(Holders(k)') \in Nat
      /\ Cardinality(Holders(k)') <= Cardinality(H)
  BY <1>3, FS_Subset, FS_CardinalityType
<1>5. released[k] \in Nat
  BY DEF OrdersTypeOK
<1> HIDE DEF H
<1> QED
  BY <1>1, <1>3, <1>4, <1>5 DEF Held, Budget

\* An order by its place.
LEMMA OrderAt ==
  ASSUME NEW list \in Seq(Order)
  PROVE  /\ Len(list) \in Nat /\ DOMAIN list = 1 .. Len(list)
         /\ \A o \in DOMAIN list : list[o] \in Order
BY LenProperties, ElementOfSeq

\* Changing one order of a list.
LEMMA OrderChanged ==
  ASSUME NEW list \in Seq(Order), NEW o, NEW e \in Order, CrewTells(list),
         (e.crew = NoCrew) = (e.status = "pending")
  PROVE  /\ [list EXCEPT ![o] = e] \in Seq(Order)
         /\ CrewTells([list EXCEPT ![o] = e])
         /\ DOMAIN [list EXCEPT ![o] = e] = DOMAIN list
         /\ \A p \in DOMAIN list : [list EXCEPT ![o] = e][p] = IF p = o THEN e ELSE list[p]
<1>1. /\ DOMAIN [list EXCEPT ![o] = e] = DOMAIN list
      /\ \A p \in DOMAIN list : [list EXCEPT ![o] = e][p] = IF p = o THEN e ELSE list[p]
  OBVIOUS
<1>2. CrewTells([list EXCEPT ![o] = e])
  BY <1>1 DEF CrewTells
<1>3. CASE o \in DOMAIN list
  BY <1>1, <1>2, <1>3, OrderAt, ExceptSeq
<1>4. CASE o \notin DOMAIN list
  <2>1. [list EXCEPT ![o] = e] = list
    BY <1>4, OrderAt
  <2> QED
    BY <2>1, <1>1, <1>2
<1> QED
  BY <1>3, <1>4

\* Who is where after one caller moved.
LEMMA CallMoved ==
  ASSUME OrdersTypeOK, NEW c \in Callers, NEW next, Goto(c, next)
  PROVE  /\ DOMAIN call' = Callers /\ call'[c] = next
         /\ \A d \in Callers \ {c} : call'[d] = call[d]
BY DEF OrdersTypeOK, CallTypes, Goto

\* A caller that moves without a crew to write, while the orders stay.
LEMMA MovesKeep ==
  ASSUME OrdersInv, NEW c \in Callers, NEW next, Goto(c, next),
         next.pc # "write",
         next.pc \in {"read", "crew"} => next.preferred \in Ids \cup {NoCrew},
         UNCHANGED <<orders, free, life, released>>
  PROVE  OrdersInv'
<1>1. /\ DOMAIN call' = Callers /\ call'[c] = next
      /\ \A d \in Callers \ {c} : call'[d] = call[d]
  BY CallMoved DEF OrdersInv
<1>2. OrdersTypeOK'
  BY <1>1 DEF OrdersInv, OrdersTypeOK, CallTypes
<1>3. \A k \in Ids : Holders(k)' \subseteq Holders(k)
  BY <1>1 DEF Holders
<1>4. \A k \in Ids : Held(k)'
  BY <1>3, HeldByFewer DEF OrdersInv
<1> QED
  BY <1>2, <1>4 DEF OrdersInv, CrewTells

LEMMA InsertKeeps ==
  ASSUME OrdersInv, NEW c \in Callers, ScheduleInsert(c)
  PROVE  OrdersInv'
<1>1. orders' = Append(orders, Pending) /\ Goto(c, Idle) /\ UNCHANGED <<free, life, released>>
  BY DEF ScheduleInsert
<1>2. /\ DOMAIN call' = Callers /\ call'[c] = Idle
      /\ \A d \in Callers \ {c} : call'[d] = call[d]
  BY <1>1, CallMoved DEF OrdersInv
<1>3. Pending \in Order /\ Pending.status = "pending" /\ Pending.crew = NoCrew
  BY DEF Pending, Order
<1>4. orders \in Seq(Order) /\ Len(orders) \in Nat /\ DOMAIN orders = 1 .. Len(orders)
  BY OrderAt DEF OrdersInv, OrdersTypeOK
<1>5. /\ orders' \in Seq(Order) /\ DOMAIN orders' = 1 .. Len(orders) + 1
      /\ orders'[Len(orders) + 1] = Pending
      /\ \A o \in DOMAIN orders : orders'[o] = orders[o]
  <2> HIDE DEF OrdersInv
  <2>1. /\ orders' \in Seq(Order) /\ Len(orders') = Len(orders) + 1
        /\ orders'[Len(orders) + 1] = Pending
        /\ \A o \in 1 .. Len(orders) : orders'[o] = orders[o]
    BY <1>1, <1>3, <1>4, AppendProperties
  <2> QED
    BY <2>1, <1>4, LenProperties
<1>6. \A o \in DOMAIN orders' : o \in DOMAIN orders \/ o = Len(orders) + 1
  BY <1>4, <1>5
<1>7. OrdersTypeOK'
  <2>1. call'[c].pc = "idle"
    BY <1>2 DEF Idle
  <2>2. CallTypes'
    BY <1>2, <2>1 DEF OrdersInv, OrdersTypeOK, CallTypes
  <2> QED
    BY <1>1, <1>5, <2>2 DEF OrdersInv, OrdersTypeOK
<1>8. CrewTells(orders)'
  BY <1>3, <1>5, <1>6 DEF OrdersInv, CrewTells
<1>9. \A k \in Ids : Holders(k)' \subseteq Holders(k)
  <2>1. \A k \in Ids : k # NoCrew
    BY CrewTypes
  <2>2. \A k \in Ids : \A o \in DOMAIN orders' : orders'[o].crew = k => o \in DOMAIN orders /\ orders[o].crew = k
    BY <2>1, <1>3, <1>5, <1>6
  <2> QED
    BY <2>2, <1>2 DEF Holders, Idle
<1>10. \A k \in Ids : Held(k)'
  BY <1>1, <1>9, HeldByFewer DEF OrdersInv
<1> QED
  BY <1>1, <1>7, <1>8, <1>10 DEF OrdersInv, CrewTells

\* The pool only hands out what it counts as free.
LEMMA ChoiceFree ==
  ASSUME OrdersInv, NEW p \in Ids \cup {NoCrew}, NEW k \in Choice(p)
  PROVE  k \in Ids /\ free[k]
BY DEF Choice, FirstFree, FreeInOrder, Crews, Ids, OrdersInv, OrdersTypeOK

LEMMA CrewKeeps ==
  ASSUME OrdersInv, NEW c \in Callers, AssignCrew(c)
  PROVE  OrdersInv'
<1>1. CASE Goto(c, Idle) /\ UNCHANGED <<orders, free, life, released>>
  BY <1>1, MovesKeep DEF Idle
<1>2. ASSUME NEW k \in Choice(call[c].preferred),
             free' = [free EXCEPT ![k] = FALSE],
             Goto(c, [pc |-> "write", order |-> call[c].order, crew |-> k]),
             UNCHANGED <<orders, life, released>>
      PROVE  OrdersInv'
  <2>1. k \in Ids /\ free[k]
    BY ChoiceFree DEF OrdersInv, OrdersTypeOK, CallTypes, AssignCrew, At
  <2>2. /\ DOMAIN call' = Callers
        /\ call'[c].pc = "write" /\ call'[c].crew = k
        /\ \A d \in Callers \ {c} : call'[d] = call[d]
    BY <1>2, CallMoved DEF OrdersInv
  <2>3. /\ ~free'[k] /\ free' \in [Ids -> BOOLEAN]
        /\ \A j \in Ids \ {k} : free'[j] = free[j]
    BY <1>2, <2>1 DEF OrdersInv, OrdersTypeOK
  <2>4. OrdersTypeOK'
    BY <1>2, <2>1, <2>2, <2>3 DEF OrdersInv, OrdersTypeOK, CallTypes
  <2>5. Holders(k)' \subseteq Holders(k) \cup {<<"call", c>>}
    BY <1>2, <2>2 DEF Holders
  <2>6. \A j \in Ids \ {k} : Holders(j)' \subseteq Holders(j)
    BY <1>2, <2>2 DEF Holders
  <2>7. Held(k)'
    BY <1>2, <2>1, <2>3, <2>5, HeldByOneMore DEF OrdersInv
  <2>8. \A j \in Ids \ {k} : Held(j)'
    BY <1>2, <2>3, <2>6, HeldByFewer DEF OrdersInv
  <2> QED
    BY <1>2, <2>4, <2>7, <2>8 DEF OrdersInv, CrewTells
<1> QED
  BY <1>1, <1>2 DEF AssignCrew

\* The order takes the caller's place as the holder of the crew.
LEMMA WriteKeeps ==
  ASSUME OrdersInv, NEW c \in Callers, AssignWrite(c)
  PROVE  OrdersInv'
<1>0. PICK o, k : call[c].pc = "write" /\ call[c].order = o /\ call[c].crew = k
  BY DEF AssignWrite, At
<1> DEFINE e == [status |-> "scheduled", crew |-> k]
<1>1. /\ orders' = [orders EXCEPT ![o] = e]
      /\ Goto(c, Idle) /\ UNCHANGED <<free, life, released>>
  BY <1>0 DEF AssignWrite
<1>2. k \in Ids /\ k # NoCrew
  BY <1>0, CrewTypes DEF OrdersInv, OrdersTypeOK, CallTypes
<1>3. e \in Order /\ e.crew = k /\ e.status = "scheduled"
  BY <1>2 DEF Order
<1>4. <<"call", c>> \in Holders(k)
  BY <1>0 DEF Holders
<1> HIDE DEF e
<1>5. /\ DOMAIN call' = Callers /\ call'[c] = Idle
      /\ \A d \in Callers \ {c} : call'[d] = call[d]
  BY <1>1, CallMoved DEF OrdersInv
<1>6. /\ orders' \in Seq(Order) /\ CrewTells(orders')
      /\ DOMAIN orders' = DOMAIN orders
      /\ \A p \in DOMAIN orders : orders'[p] = IF p = o THEN e ELSE orders[p]
  BY <1>1, <1>2, <1>3, OrderChanged DEF OrdersInv, OrdersTypeOK
<1>7. OrdersTypeOK'
  <2>1. call'[c].pc = "idle"
    BY <1>5 DEF Idle
  <2>2. CallTypes'
    BY <1>5, <2>1 DEF OrdersInv, OrdersTypeOK, CallTypes
  <2> QED
    BY <1>1, <1>6, <2>2 DEF OrdersInv, OrdersTypeOK
<1>8. \A j \in Ids : \A h \in Holders(j)' :
        h # <<"call", c>> /\ (h \in Holders(j) \/ (j = k /\ h = <<"order", o>>))
  <2> SUFFICES ASSUME NEW j \in Ids, NEW h \in Holders(j)'
               PROVE  h # <<"call", c>> /\ (h \in Holders(j) \/ (j = k /\ h = <<"order", o>>))
    OBVIOUS
  <2>1. ASSUME NEW p \in DOMAIN orders', (orders'[p]).crew = j, h = <<"order", p>>
        PROVE  h # <<"call", c>> /\ (h \in Holders(j) \/ (j = k /\ h = <<"order", o>>))
    <3>1. CASE p = o
      BY <2>1, <3>1, <1>3, <1>6
    <3>2. CASE p # o
      BY <2>1, <3>2, <1>6 DEF Holders
    <3> QED
      BY <3>1, <3>2
  <2>2. ASSUME NEW d \in Callers, (call'[d]).pc = "write", (call'[d]).crew = j, h = <<"call", d>>
        PROVE  h # <<"call", c>> /\ h \in Holders(j)
    <3>1. d # c
      BY <2>2, <1>5 DEF Idle
    <3> QED
      BY <2>2, <3>1, <1>5 DEF Holders
  <2> QED
    BY <2>1, <2>2 DEF Holders
<1>9. /\ Holders(k)' \subseteq (Holders(k) \ {<<"call", c>>}) \cup {<<"order", o>>}
      /\ \A j \in Ids \ {k} : Holders(j)' \subseteq Holders(j)
  BY <1>2, <1>8
<1>10. Held(k)'
  BY <1>1, <1>2, <1>4, <1>9, HeldBySuccessor DEF OrdersInv
<1>11. \A j \in Ids \ {k} : Held(j)'
  BY <1>1, <1>9, HeldByFewer DEF OrdersInv
<1> QED
  BY <1>1, <1>2, <1>6, <1>7, <1>10, <1>11 DEF OrdersInv, CrewTells

\* A release marks the crew free once more, and is counted.
LEMMA ReleaseKeeps ==
  ASSUME OrdersInv, NEW r \in ReleaseIds, Release(r)
  PROVE  OrdersInv'
<1>1. r \in Ids
  BY CrewTypes
<1>2. /\ free' = [free EXCEPT ![r] = TRUE] /\ released' = [released EXCEPT ![r] = @ + 1]
      /\ UNCHANGED <<orders, call, life>>
  BY DEF Release
<1>3. OrdersTypeOK'
  BY <1>1, <1>2 DEF OrdersInv, OrdersTypeOK, CallTypes
<1>4. ASSUME NEW k \in Ids
      PROVE  Held(k)'
  <2>1. Holders(k)' = Holders(k)
    BY <1>2 DEF Holders
  <2>2. Cardinality(Holders(k)) \in Nat
    BY FS_CardinalityType DEF OrdersInv, Held
  <2>3. /\ released[k] \in Nat
        /\ released'[k] = (IF k = r THEN released[k] + 1 ELSE released[k])
        /\ k # r => free'[k] = free[k]
    BY <1>1, <1>2 DEF OrdersInv, OrdersTypeOK
  <2>4. IsFiniteSet(Holders(k)')
    BY <2>1 DEF OrdersInv, Held
  <2>5. Cardinality(Holders(k)') = Cardinality(Holders(k))
    BY <2>1
  <2> QED
    BY <2>2, <2>3, <2>4, <2>5 DEF OrdersInv, Held, Budget
<1> QED
  BY <1>2, <1>3, <1>4 DEF OrdersInv, CrewTells

\* The lifecycle's list is a copy, and its moves leave the crew alone.
LEMMA LifeKeeps ==
  ASSUME OrdersInv, LifecycleNew \/ \E o \in DOMAIN life : Start(o) \/ Complete(o)
  PROVE  OrdersInv'
<1>1. UNCHANGED <<orders, free, call, released>>
  BY DEF LifecycleNew, Start, Complete, Move
<1>2. life' \in Seq(Order) /\ CrewTells(life)'
  <2>1. CASE LifecycleNew
    BY <2>1 DEF LifecycleNew, OrdersInv, OrdersTypeOK, CrewTells
  <2>2. ASSUME NEW o \in DOMAIN life, Start(o) \/ Complete(o)
        PROVE  life' \in Seq(Order) /\ CrewTells(life)'
    <3>1. PICK to \in {"in_progress", "done"} :
            life[o].status # "pending" /\ life' = [life EXCEPT ![o].status = to]
      BY <2>2 DEF Start, Complete, Move
    <3> DEFINE e == [life[o] EXCEPT !.status = to]
    <3>2. life' = [life EXCEPT ![o] = e]
      BY <3>1
    <3>3. life \in Seq(Order) /\ life[o] \in Order
      BY OrderAt DEF OrdersInv, OrdersTypeOK
    <3>4. e \in Order /\ e.crew = life[o].crew /\ e.status = to
      BY <3>3 DEF Order
    <3>5. (e.crew = NoCrew) = (e.status = "pending")
      BY <3>1, <3>4 DEF OrdersInv, CrewTells
    <3> HIDE DEF e
    <3> QED
      BY <3>2, <3>3, <3>4, <3>5, OrderChanged DEF OrdersInv
  <2> QED
    BY <2>1, <2>2
<1>3. OrdersTypeOK'
  BY <1>1, <1>2 DEF OrdersInv, OrdersTypeOK, CallTypes
<1>4. \A k \in Ids : Held(k)'
  BY <1>1 DEF OrdersInv, Held, Budget, Holders
<1> QED
  BY <1>1, <1>2, <1>3, <1>4 DEF OrdersInv, CrewTells

LEMMA OrdersNextInv ==
  ASSUME OrdersInv, [Next]_vars
  PROVE  OrdersInv'
<1>1. ASSUME NEW c \in Callers, Begin(c)
      PROVE  OrdersInv'
  <2>1. \/ Goto(c, [pc |-> "insert"]) \/ Goto(c, [pc |-> "list"])
        \/ \E o \in DOMAIN orders, p \in Ids \cup {NoCrew} :
             Goto(c, [pc |-> "read", order |-> o, preferred |-> p])
    BY <1>1 DEF Begin
  <2>2. UNCHANGED <<orders, free, life, released>>
    BY <1>1 DEF Begin
  <2> QED
    BY <2>1, <2>2, MovesKeep
<1>2. ASSUME NEW c \in Callers, List(c) \/ AssignRead(c)
      PROVE  OrdersInv'
  <2>1. \/ Goto(c, Idle)
        \/ /\ Goto(c, [pc |-> "crew", order |-> call[c].order, preferred |-> call[c].preferred])
           /\ call[c].preferred \in Ids \cup {NoCrew}
    BY <1>2 DEF List, AssignRead, At, OrdersInv, OrdersTypeOK, CallTypes
  <2>2. UNCHANGED <<orders, free, life, released>>
    BY <1>2 DEF List, AssignRead
  <2> QED
    BY <2>1, <2>2, MovesKeep DEF Idle
<1>3. CASE UNCHANGED <<orders, free, call, life, released>>
  BY <1>3 DEF OrdersInv, OrdersTypeOK, CallTypes, CrewTells, Held, Budget, Holders
<1> QED
  BY <1>1, <1>2, <1>3, InsertKeeps, CrewKeeps, WriteKeeps, ReleaseKeeps, LifeKeeps
  DEF Next, vars, MapThrow

LEMMA OrdersInitInv == Init => OrdersInv
<1> SUFFICES ASSUME Init
             PROVE  OrdersInv
  OBVIOUS
<1>1. /\ orders = << >> /\ life = << >> /\ call = [c \in Callers |-> Idle]
      /\ free = [k \in Ids |-> k \in Crews] /\ released = [k \in Ids |-> 0]
  BY DEF Init
<1>2. OrdersTypeOK
  BY <1>1 DEF OrdersTypeOK, CallTypes, Idle
<1>3. \A k \in Ids : Holders(k) = {}
  BY <1>1 DEF Holders, Idle
<1>4. ASSUME NEW k \in Ids
      PROVE  Held(k)
  <2>1. IsFiniteSet(Holders(k)) /\ Cardinality(Holders(k)) = 0
    BY <1>3, FS_EmptySet
  <2>2. Budget(k) = IF k \in Crews THEN 1 ELSE 0
    BY <1>1 DEF Budget
  <2>3. free[k] <=> k \in Crews
    BY <1>1
  <2>4. CASE k \in Crews
    BY <2>1, <2>2, <2>3, <2>4 DEF Held
  <2>5. CASE k \notin Crews
    BY <2>1, <2>2, <2>3, <2>5 DEF Held
  <2> QED
    BY <2>4, <2>5
<1>5. CrewTells(orders) /\ CrewTells(life)
  BY <1>1 DEF CrewTells
<1> QED
  BY <1>2, <1>4, <1>5 DEF OrdersInv

\* For every number of callers, crews and orders, and whatever ids are preferred
\* or released: a crew has one holder, one more for each release, and none while
\* the pool counts it as free; and orders with a crew are those not pending.
THEOREM CrewsAreExclusive == Spec => []CrewExclusive
<1>1. OrdersInv => CrewExclusive
  BY DEF OrdersInv, CrewTells, Held, Budget, CrewExclusive
<1> QED
  BY <1>1, OrdersInitInv, OrdersNextInv, PTL DEF Spec

-----------------------------------------------------------------------------
(* GridEnergy: expiry is housekeeping, and each total is what it should be. *)

Curtailment == [site : GridSites, start : Int, end : Int, limit : Limits, active : BOOLEAN]

ItemsInv == hour \in Nat /\ items \in Seq(Curtailment)

\* A set of natural numbers that is not empty has a least one.
LEMMA NatLeast ==
  ASSUME NEW S, S \subseteq Nat, S # {}
  PROVE  \E m \in S : \A y \in S : m <= y
<1>1. PICK m \in S : \A z \in S : ~(<<z, m>> \in OpToRel(<, Nat))
  BY NatLessThanWellFounded, WFMin
<1>2. ASSUME NEW z \in S, ~(m <= z)
      PROVE  FALSE
  <2>1. z \in Nat /\ m \in Nat /\ z < m
    BY <1>2
  <2>2. <<z, m>> \in OpToRel(<, Nat)
    BY <2>1 DEF OpToRel
  <2> QED
    BY <1>1, <2>2
<1> QED
  BY <1>2

\* Expire keeps every place and changes no more than the active mark.
LEMMA ExpireShape ==
  ASSUME ItemsInv, NEW at \in 0 .. hour,
         items' = [i \in DOMAIN items |-> [items[i] EXCEPT !.active = @ /\ at < items[i].end]]
  PROVE  /\ items' \in Seq(Curtailment) /\ DOMAIN items' = DOMAIN items
         /\ Len(items') = Len(items) /\ Len(items) \in Nat
         /\ \A i \in 1 .. Len(items) :
              /\ items[i] \in Curtailment
              /\ items'[i] = [items[i] EXCEPT !.active = @ /\ at < items[i].end]
<1>1. /\ Len(items) \in Nat /\ DOMAIN items = 1 .. Len(items)
      /\ \A i \in 1 .. Len(items) : items[i] \in Curtailment
  BY LenProperties, ElementOfSeq DEF ItemsInv
<1>2. \A i \in 1 .. Len(items) : [items[i] EXCEPT !.active = @ /\ at < items[i].end] \in Curtailment
  <2> TAKE i \in 1 .. Len(items)
  <2>1. items[i] \in Curtailment
    BY <1>1
  <2>2. (items[i].active /\ at < items[i].end) \in BOOLEAN
    OBVIOUS
  <2> QED
    BY <2>1, <2>2 DEF Curtailment
<1>3. items' \in [1 .. Len(items) -> Curtailment]
  BY <1>1, <1>2
<1> QED
  BY <1>1, <1>3, SeqDef, LenProperties

\* The first curtailment in force is one of the schedule's, or there is none.
LEMMA SelectedIn ==
  ASSUME items \in Seq(Curtailment), NEW site, NEW t
  PROVE  ActiveFor(items, site, t) = 0 \/ ActiveFor(items, site, t) \in 1 .. Len(items)
<1> DEFINE I == {i \in 1 .. Len(items) : Covers(items[i], site, t)}
<1>1. ActiveFor(items, site, t) = IF I # {} THEN CHOOSE x \in I : \A y \in I : x <= y ELSE 0
  BY DEF ActiveFor, SelectInSeq, Min
<1>2. CASE I = {}
  BY <1>1, <1>2
<1>3. CASE I # {}
  <2>1. I \subseteq Nat /\ I # {}
    BY <1>3, LenProperties
  <2>2. PICK m \in I : \A y \in I : m <= y
    BY <2>1, NatLeast
  <2>3. (CHOOSE x \in I : \A y \in I : x <= y) \in I
    BY <2>2
  <2> QED
    BY <1>1, <1>3, <2>3
<1> QED
  BY <1>2, <1>3

LEMMA ItemsInitInv == GridInit => ItemsInv
BY EmptySeq DEF GridInit, ItemsInv

LEMMA ItemsNextInv ==
  ASSUME ItemsInv, [GridNext]_gridVars
  PROVE  ItemsInv'
<1>1. CASE Add
  <2>1. PICK site \in GridSites, limit \in Limits, w \in Windows :
          items' = Append(items, [site |-> site, start |-> w[1], end |-> w[2],
                                  limit |-> limit, active |-> TRUE])
    BY <1>1 DEF Add
  <2>2. w[1] \in Int /\ w[2] \in Int
    BY GridNumbers
  <2>3. [site |-> site, start |-> w[1], end |-> w[2], limit |-> limit, active |-> TRUE]
          \in Curtailment
    BY <2>2 DEF Curtailment
  <2>4. items' \in Seq(Curtailment)
    BY <2>1, <2>3, AppendProperties DEF ItemsInv
  <2> QED
    BY <2>4, <1>1 DEF Add, ItemsInv
<1>2. CASE Expire
  <2>1. PICK at \in 0 .. hour :
          items' = [i \in DOMAIN items |-> [items[i] EXCEPT !.active = @ /\ at < items[i].end]]
    BY <1>2 DEF Expire
  <2> QED
    BY <1>2, <2>1, ExpireShape DEF Expire, ItemsInv
<1>3. CASE Bill \/ Adjust
  BY <1>3 DEF Bill, Adjust, ItemsInv
<1>4. CASE HourPasses
  BY <1>4 DEF HourPasses, ItemsInv
<1>5. CASE UNCHANGED gridVars
  BY <1>5 DEF gridVars, ItemsInv
<1> QED
  BY <1>1, <1>2, <1>3, <1>4, <1>5 DEF GridNext

\* An instruction that has ended by `at` covers nothing from then on.
LEMMA ExpireCovers ==
  ASSUME ItemsInv, NEW at \in 0 .. hour, NEW t \in Nat, t >= hour,
         NEW site \in GridSites, NEW c \in Curtailment,
         NEW d, d = [c EXCEPT !.active = @ /\ at < c.end]
  PROVE  Covers(d, site, t) <=> Covers(c, site, t)
BY DEF ItemsInv, Covers, Curtailment

LEMMA ExpireLeavesActive ==
  ASSUME ItemsInv, Expire, NEW site \in GridSites, NEW t \in Nat, t >= hour
  PROVE  ActiveFor(items', site, t) = ActiveFor(items, site, t)
<1>1. PICK at \in 0 .. hour :
        items' = [i \in DOMAIN items |-> [items[i] EXCEPT !.active = @ /\ at < items[i].end]]
  BY DEF Expire
<1>2. /\ Len(items') = Len(items) /\ Len(items) \in Nat
      /\ \A i \in 1 .. Len(items) :
           /\ items[i] \in Curtailment
           /\ items'[i] = [items[i] EXCEPT !.active = @ /\ at < items[i].end]
  BY <1>1, ExpireShape
<1>3. {i \in 1 .. Len(items') : Covers(items'[i], site, t)}
        = {i \in 1 .. Len(items) : Covers(items[i], site, t)}
  <2>1. ASSUME NEW i \in 1 .. Len(items)
        PROVE  Covers(items'[i], site, t) <=> Covers(items[i], site, t)
    <3>1. PICK c \in Curtailment : c = items[i]
      BY <1>2, <2>1
    <3>2. PICK d : d = items'[i]
      OBVIOUS
    <3>3. d = [c EXCEPT !.active = @ /\ at < c.end]
      BY <1>2, <2>1, <3>1, <3>2
    <3> QED
      BY <3>1, <3>2, <3>3, ExpireCovers
  <2> QED
    BY <1>2, <2>1
<1> QED
  BY <1>3 DEF ActiveFor, SelectInSeq

\* For any sites, windows and limits, Schedule.Expire changes the answer to no
\* question about the present or the future.
THEOREM ExpiryNeverSeen == GridSpec => ExpiryIsInvisible
<1>1. ASSUME ItemsInv, [GridNext]_gridVars
      PROVE  [items' # items /\ Len(items') = Len(items) =>
               \A site \in GridSites, at \in hour' .. Horizon :
                 ActiveFor(items', site, at) = ActiveFor(items, site, at)]_gridVars
  <2>1. CASE Add
    <3>1. Len(items') # Len(items)
      <4>1. PICK c : items' = Append(items, c)
        BY <2>1 DEF Add
      <4>2. Len(items) \in Nat /\ Len(Append(items, c)) = Len(items) + 1
        BY <1>1, LenProperties, AppendProperties DEF ItemsInv
      <4> QED
        BY <4>1, <4>2
    <3> QED
      BY <3>1
  <2>2. CASE Expire
    <3>1. hour \in Nat /\ hour' = hour
      BY <1>1, <2>2 DEF ItemsInv, Expire
    <3>2. ASSUME NEW site \in GridSites, NEW at \in hour' .. Horizon
          PROVE  ActiveFor(items', site, at) = ActiveFor(items, site, at)
      <4>1. at \in Nat /\ at >= hour
        BY <3>1
      <4> QED
        BY <1>1, <2>2, <4>1, ExpireLeavesActive
    <3> QED
      BY <3>2
  <2>3. CASE Bill \/ Adjust \/ HourPasses \/ UNCHANGED gridVars
    BY <2>3 DEF Bill, Adjust, HourPasses, gridVars
  <2> QED
    BY <1>1, <2>1, <2>2, <2>3 DEF GridNext
<1> QED
  BY <1>1, ItemsInitInv, ItemsNextInv, PTL DEF GridSpec, ExpiryIsInvisible

\* What a settlement that was, or was not, corrected comes to.
Due(s, isCorrected) ==
  s.energy * s.price
    - (IF isCorrected THEN 0 ELSE Shortfall(s.energy, PPAs[s.site]) * PPAs[s.site].penalty)

\* The totals of the settlements, each for itself.
TotalsFollow == \A i \in DOMAIN settlements :
                  /\ settlements[i].price = PPAs[settlements[i].site].price
                  /\ settlements[i].total = Due(settlements[i], i \in corrected)

Settlement == [site : GridSites, energy : Int, price : Int, total : Int]

SettlementsInv == /\ ItemsInv
                  /\ settlements \in Seq(Settlement)
                  /\ corrected \subseteq DOMAIN settlements
                  /\ TotalsFollow

LEMMA SettlementsInitInv == GridInit => SettlementsInv
BY ItemsInitInv, EmptySeq DEF GridInit, SettlementsInv, TotalsFollow

\* What Bill appends is a settlement at its agreement.
LEMMA SettleShape ==
  ASSUME NEW site \in GridSites, NEW energy \in Int
  PROVE  /\ Settle(site, energy) \in Settlement
         /\ Settle(site, energy).site = site
         /\ Settle(site, energy).price = PPAs[site].price
         /\ Settle(site, energy).total = Due(Settle(site, energy), FALSE)
<1>1. PICK p \in [price : Int, minDeliver : Int, penalty : Int] : p = PPAs[site]
  BY AgreementTypes
<1>2. PICK f \in Int : f = Shortfall(energy, PPAs[site])
  BY <1>1 DEF Shortfall
<1>3. PICK total \in Int : total = energy * PPAs[site].price - f * PPAs[site].penalty
  BY <1>1
<1>4. Settle(site, energy) = [site |-> site, energy |-> energy, price |-> PPAs[site].price, total |-> total]
  BY <1>2, <1>3 DEF Settle
<1> QED
  BY <1>1, <1>2, <1>3, <1>4 DEF Settlement, Due

LEMMA ExportedIsEnergy ==
  ASSUME ItemsInv, NEW site, NEW metered \in Metered
  PROVE  Exported(site, metered, hour) \in Int
<1>1. metered \in Int /\ Limits \subseteq Int
  BY GridNumbers
<1>2. PICK i : i = ActiveFor(items, site, hour)
  OBVIOUS
<1>3. /\ Len(items) \in Nat
      /\ \A k \in 1 .. Len(items) : items[k] \in Curtailment
  BY LenProperties, ElementOfSeq DEF ItemsInv
<1>4. i = 0 \/ i \in 1 .. Len(items)
  BY <1>2, SelectedIn DEF ItemsInv
<1>5. CASE i = 0
  BY <1>1, <1>2, <1>5 DEF Exported
<1>6. CASE i \in 1 .. Len(items)
  BY <1>1, <1>2, <1>3, <1>6 DEF Exported, Curtailment
<1> QED
  BY <1>4, <1>5, <1>6

LEMMA SettlementsNextInv ==
  ASSUME SettlementsInv, [GridNext]_gridVars
  PROVE  SettlementsInv'
<1>0. ItemsInv'
  BY ItemsNextInv DEF SettlementsInv
<1>1. CASE Add \/ Expire \/ HourPasses \/ UNCHANGED gridVars
  BY <1>0, <1>1 DEF Add, Expire, HourPasses, gridVars, SettlementsInv, TotalsFollow
<1>2. CASE Bill
  <2>1. PICK site \in GridSites, metered \in Metered :
          settlements' = Append(settlements, Settle(site, Exported(site, metered, hour)))
    BY <1>2 DEF Bill
  <2>2. PICK energy \in Int : energy = Exported(site, metered, hour)
    BY ExportedIsEnergy DEF SettlementsInv
  <2>3. PICK s \in Settlement : /\ s = Settle(site, energy)
                                /\ s.site = site /\ s.price = PPAs[site].price
                                /\ s.total = Due(s, FALSE)
    BY SettleShape
  <2>4. PICK n \in Nat : n = Len(settlements) /\ DOMAIN settlements = 1 .. n
    BY LenProperties DEF SettlementsInv
  <2>5. /\ settlements' \in Seq(Settlement)
        /\ DOMAIN settlements' = 1 .. n + 1
        /\ settlements'[n + 1] = s
        /\ \A i \in 1 .. n : settlements'[i] = settlements[i]
    BY <2>1, <2>2, <2>3, <2>4, AppendProperties, LenProperties DEF SettlementsInv
  <2>6. corrected' = corrected /\ corrected \subseteq 1 .. n
    BY <1>2, <2>4 DEF Bill, SettlementsInv
  <2>7. ASSUME NEW i \in 1 .. n + 1
        PROVE  /\ (settlements'[i]).price = PPAs[(settlements'[i]).site].price
               /\ (settlements'[i]).total = Due(settlements'[i], i \in corrected)
    <3>1. CASE i = n + 1
      <4>1. ~(i \in corrected)
        BY <2>4, <2>6, <3>1
      <4> QED
        BY <2>3, <2>5, <3>1, <4>1 DEF Due
    <3>2. CASE i # n + 1
      <4>1. i \in 1 .. n
        BY <2>4, <3>2
      <4> QED
        BY <2>4, <2>5, <4>1 DEF SettlementsInv, TotalsFollow
    <3> QED
      BY <3>1, <3>2
  <2>8. TotalsFollow'
    BY <2>5, <2>6, <2>7 DEF TotalsFollow, Due, Shortfall
  <2>9. corrected' \subseteq DOMAIN settlements'
    BY <2>4, <2>5, <2>6
  <2> QED
    BY <1>0, <2>5, <2>8, <2>9 DEF SettlementsInv
<1>3. CASE Adjust
  <2>1. PICK i \in DOMAIN settlements, delta \in Deltas :
          /\ settlements[i].energy + delta \in 0 .. MaxEnergy
          /\ settlements' = [settlements EXCEPT
                               ![i].energy = settlements[i].energy + delta,
                               ![i].total = (settlements[i].energy + delta) * settlements[i].price]
          /\ corrected' = corrected \cup {i}
    BY <1>3 DEF Adjust
  <2>2. PICK n \in Nat : n = Len(settlements) /\ DOMAIN settlements = 1 .. n
    BY LenProperties DEF SettlementsInv
  <2>3. \A k \in 1 .. n : settlements[k] \in Settlement
    BY <2>2, ElementOfSeq DEF SettlementsInv
  <2>4. PICK old \in Settlement : old = settlements[i]
    BY <2>1, <2>2, <2>3
  <2>5. PICK e \in Int : e = old.energy + delta
    BY <2>1, <2>4
  <2>6. PICK total \in Int : total = e * old.price
    BY <2>4 DEF Settlement
  <2>7. PICK s : s = [site |-> old.site, energy |-> e, price |-> old.price, total |-> total]
    OBVIOUS
  <2>8. s \in Settlement
    BY <2>4, <2>7 DEF Settlement
  <2>9. settlements' = [k \in 1 .. n |-> IF k = i THEN s ELSE settlements[k]]
    <3>0. settlements = [k \in 1 .. n |-> settlements[k]]
      BY <2>2, SeqDef DEF SettlementsInv
    <3>2. PICK m : m = [site |-> old.site, energy |-> e, price |-> old.price, total |-> old.total]
      OBVIOUS
    <3>3. [old EXCEPT !.energy = e] = m
      <4>1. old = [site |-> old.site, energy |-> old.energy, price |-> old.price, total |-> old.total]
        BY <2>4 DEF Settlement
      <4> QED
        BY <4>1, <3>2
    <3>4. PICK mid : mid = [k \in 1 .. n |-> IF k = i THEN m ELSE settlements[k]]
      OBVIOUS
    <3>5. [settlements EXCEPT ![i].energy = e] = mid
      BY <2>1, <2>2, <2>4, <3>0, <3>3, <3>4
    <3>6. [m EXCEPT !.total = total] = s
      BY <2>7, <3>2
    <3>7. [mid EXCEPT ![i].total = total]
            = [k \in 1 .. n |-> IF k = i THEN s ELSE settlements[k]]
      BY <2>1, <2>2, <3>4, <3>6
    <3>8. [[settlements EXCEPT ![i].energy = e] EXCEPT ![i].total = total]
            = [k \in 1 .. n |-> IF k = i THEN s ELSE settlements[k]]
      BY <3>5, <3>7
    <3> QED
      BY <2>1, <2>4, <2>5, <2>6, <3>8
  <2>10. settlements' \in Seq(Settlement) /\ DOMAIN settlements' = 1 .. n
    <3>1. settlements' \in [1 .. n -> Settlement]
      BY <2>3, <2>8, <2>9
    <3> QED
      BY <3>1, <2>2, SeqDef
  <2>11. ASSUME NEW k \in 1 .. n
         PROVE  /\ (settlements'[k]).price = PPAs[(settlements'[k]).site].price
                /\ (settlements'[k]).total = Due(settlements'[k], k \in corrected \cup {i})
    <3>0. settlements[k].price = PPAs[settlements[k].site].price
          /\ settlements[k].total = Due(settlements[k], k \in corrected)
      BY <2>2 DEF SettlementsInv, TotalsFollow
    <3>1. CASE k = i
      <4>1. settlements'[k] = s
        BY <2>9, <3>1
      <4>2. s.price = PPAs[s.site].price
        BY <2>4, <2>7, <3>0, <3>1
      <4>3. s.total = s.energy * s.price - 0
        BY <2>6, <2>7
      <4> QED
        BY <3>1, <4>1, <4>2, <4>3 DEF Due
    <3>2. CASE k # i
      <4>1. settlements'[k] = settlements[k]
        BY <2>9, <3>2
      <4>2. (k \in corrected \cup {i}) <=> (k \in corrected)
        BY <3>2
      <4> QED
        BY <3>0, <4>1, <4>2 DEF Due
    <3> QED
      BY <3>1, <3>2
  <2>12. TotalsFollow'
    BY <2>1, <2>10, <2>11 DEF TotalsFollow, Due, Shortfall
  <2>13. corrected' \subseteq DOMAIN settlements'
    BY <2>1, <2>2, <2>10 DEF SettlementsInv
  <2> QED
    BY <1>0, <2>10, <2>12, <2>13 DEF SettlementsInv
<1> QED
  BY <1>1, <1>2, <1>3 DEF GridNext

\* For any agreements, meters and corrections, a settlement's total is what its
\* energy comes to under its site's agreement, without the penalty if
\* AdjustEnergy corrected it.
THEOREM EachTotalFollows == GridSpec => []TotalsFollow
<1>1. SettlementsInv => TotalsFollow
  BY DEF SettlementsInv
<1> QED
  BY <1>1, SettlementsInitInv, SettlementsNextInv, PTL DEF GridSpec

(* The sums over settlements, by the smallest set they would fail for.     *)

AnElement(s) == CHOOSE x \in s : TRUE

\* h is the sum over each of the sets D, made one element after the other.
Sums(h, D, f) ==
  h = [s \in D |-> IF s = {} THEN 0 ELSE f[AnElement(s)] + h[s \ {AnElement(s)}]]

LEMMA SumIsOne ==
  ASSUME NEW f, NEW S, NEW h, Sums(h, SUBSET S, f)
  PROVE  \E g : Sums(g, SUBSET S, f) /\ SumFunctionOnSet(f, S) = g[S]
<1> DEFINE P(g) == g = [s \in SUBSET S |-> IF s = {} THEN 0
                                ELSE LET x == CHOOSE x \in s : TRUE IN f[x] + g[s \ {x}]]
<1> DEFINE c == CHOOSE g : P(g)
<1>1. P(h)
  BY DEF Sums, AnElement
<1>2. P(c)
  BY <1>1
<1>3. SumFunctionOnSet(f, S) = c[S]
  BY DEF SumFunctionOnSet, FoldFunctionOnSet, MapThenFoldSet
<1>4. Sums(c, SUBSET S, f)
  BY <1>2 DEF Sums, AnElement
<1> QED
  BY <1>3, <1>4

\* There is such a sum: the smallest size of the sets without one would be one
\* more than a size with one.
LEMMA SumExists ==
  ASSUME NEW f, NEW S, IsFiniteSet(S)
  PROVE  \E h : Sums(h, SUBSET S, f)
<1> DEFINE Small(n) == {s \in SUBSET S : Cardinality(s) <= n}
<1> DEFINE Bad == {n \in Nat : ~\E h : Sums(h, Small(n), f)}
<1>0. \A s \in SUBSET S : IsFiniteSet(s) /\ Cardinality(s) \in Nat
  BY FS_Subset, FS_CardinalityType
<1>1. Bad = {}
  <2>1. SUFFICES ASSUME Bad # {} PROVE FALSE
    OBVIOUS
  <2>2. PICK m \in Bad : \A n \in Bad : m <= n
    <3> HIDE DEF Bad
    <3>1. Bad \subseteq Nat
      BY DEF Bad
    <3> QED
      BY <2>1, <3>1, NatLeast
  <2>3. m # 0
    <3>1. SUFFICES ASSUME m = 0 PROVE FALSE
      OBVIOUS
    <3>2. \A s \in Small(0) : s = {}
      BY <1>0, FS_EmptySet
    <3>3. Sums([s \in Small(0) |-> 0], Small(0), f)
      BY <3>2 DEF Sums
    <3> QED
      BY <2>2, <3>1, <3>3
  <2>4. m \in Nat /\ m - 1 \in Nat /\ ~(m <= m - 1)
    BY <2>2, <2>3
  <2>5. PICK g : Sums(g, Small(m - 1), f)
    BY <2>2, <2>4
  <2> DEFINE h == [s \in Small(m) |-> IF s = {} THEN 0 ELSE f[AnElement(s)] + g[s \ {AnElement(s)}]]
  <2>6. ASSUME NEW s \in Small(m), s # {}
        PROVE  s \ {AnElement(s)} \in Small(m - 1)
    <3>1. AnElement(s) \in s
      BY <2>6 DEF AnElement
    <3>2. PICK n \in Nat : n = Cardinality(s)
      BY <1>0
    <3>3. PICK k \in Nat : k = Cardinality(s \ {AnElement(s)})
      BY <1>0
    <3>4. k = n - 1 /\ n <= m
      BY <1>0, <3>1, <3>2, <3>3, FS_RemoveElement
    <3>5. k <= m - 1
      BY <2>4, <3>4
    <3> QED
      BY <3>3, <3>5
  <2>7. ASSUME NEW s \in Small(m - 1)
        PROVE  s \in Small(m) /\ g[s] = h[s]
    <3>1. PICK n \in Nat : n = Cardinality(s)
      BY <1>0
    <3>2. n <= m
      BY <2>4, <3>1
    <3>3. s \in Small(m)
      BY <3>1, <3>2
    <3>4. g[s] = IF s = {} THEN 0 ELSE f[AnElement(s)] + g[s \ {AnElement(s)}]
      BY <2>5 DEF Sums
    <3> QED
      BY <3>3, <3>4
  <2>8. Sums(h, Small(m), f)
    <3> HIDE DEF Small
    <3>1. \A s \in Small(m) : h[s] = IF s = {} THEN 0 ELSE f[AnElement(s)] + h[s \ {AnElement(s)}]
      BY <2>6, <2>7
    <3>2. h = [s \in Small(m) |-> h[s]]
      OBVIOUS
    <3> HIDE DEF h
    <3>3. h = [s \in Small(m) |-> IF s = {} THEN 0 ELSE f[AnElement(s)] + h[s \ {AnElement(s)}]]
      BY <3>1, <3>2
    <3> QED
      BY <3>3 DEF Sums
  <2> QED
    BY <2>2, <2>8
<1>2. PICK n \in Nat : n = Cardinality(S)
  BY <1>0
<1>3. Small(n) = SUBSET S
  BY <1>0, <1>2, FS_Subset
<1> QED
  BY <1>1, <1>2, <1>3

\* Two sums say the same of a set they are both about.
LEMMA SumsAgree ==
  ASSUME NEW f, NEW S, IsFiniteSet(S), NEW T \in SUBSET S, NEW g, NEW h,
         Sums(g, SUBSET S, f), Sums(h, SUBSET T, f)
  PROVE  g[T] = h[T]
<1>0. \A s \in SUBSET T : IsFiniteSet(s) /\ Cardinality(s) \in Nat
  BY FS_Subset, FS_CardinalityType
<1> DEFINE Bad == {n \in Nat : \E s \in SUBSET T : Cardinality(s) = n /\ g[s] # h[s]}
<1>1. Bad = {}
  <2>1. SUFFICES ASSUME Bad # {} PROVE FALSE
    OBVIOUS
  <2>2. PICK m \in Bad : \A n \in Bad : m <= n
    <3> HIDE DEF Bad
    <3>1. Bad \subseteq Nat
      BY DEF Bad
    <3> QED
      BY <2>1, <3>1, NatLeast
  <2>3. PICK s \in SUBSET T : Cardinality(s) = m /\ g[s] # h[s]
    BY <2>2
  <2>4. /\ g[s] = IF s = {} THEN 0 ELSE f[AnElement(s)] + g[s \ {AnElement(s)}]
        /\ h[s] = IF s = {} THEN 0 ELSE f[AnElement(s)] + h[s \ {AnElement(s)}]
    BY DEF Sums
  <2>5. s # {} /\ AnElement(s) \in s
    BY <2>3, <2>4 DEF AnElement
  <2>6. PICK r \in SUBSET T : r = s \ {AnElement(s)}
    OBVIOUS
  <2>7. g[r] # h[r]
    BY <2>3, <2>4, <2>5, <2>6
  <2>8. PICK k \in Nat : k = Cardinality(r)
    BY <1>0
  <2>9. k = m - 1
    BY <1>0, <2>3, <2>5, <2>6, <2>8, FS_RemoveElement
  <2>10. m <= k
    BY <2>2, <2>7, <2>8
  <2> QED
    BY <2>2, <2>9, <2>10
<1>2. PICK n \in Nat : n = Cardinality(T)
  BY <1>0
<1> QED
  BY <1>1, <1>2

\* The sum of the community modules, one element after the other.
LEMMA SumStep ==
  ASSUME NEW f, NEW S, IsFiniteSet(S)
  PROVE  SumFunctionOnSet(f, S) =
           IF S = {} THEN 0 ELSE f[AnElement(S)] + SumFunctionOnSet(f, S \ {AnElement(S)})
<1>1. PICK g : Sums(g, SUBSET S, f) /\ SumFunctionOnSet(f, S) = g[S]
  BY SumExists, SumIsOne
<1>2. g[S] = IF S = {} THEN 0 ELSE f[AnElement(S)] + g[S \ {AnElement(S)}]
  BY <1>1 DEF Sums
<1>3. PICK T \in SUBSET S : T = S \ {AnElement(S)}
  OBVIOUS
<1>4. IsFiniteSet(T)
  BY FS_Subset
<1>5. PICK h : Sums(h, SUBSET T, f) /\ SumFunctionOnSet(f, T) = h[T]
  BY <1>4, SumExists, SumIsOne
<1>6. g[T] = h[T]
  BY <1>1, <1>5, SumsAgree
<1> QED
  BY <1>1, <1>2, <1>3, <1>5, <1>6

\* The sum of whole numbers is one, and any element can be taken out of it.
LEMMA SumRemove ==
  ASSUME NEW f, NEW S, IsFiniteSet(S), \A x \in S : f[x] \in Int
  PROVE  /\ SumFunctionOnSet(f, S) \in Int
         /\ \A x \in S : SumFunctionOnSet(f, S) = f[x] + SumFunctionOnSet(f, S \ {x})
<1> DEFINE sum(T) == SumFunctionOnSet(f, T)
<1> DEFINE Fine(T) == sum(T) \in Int /\ \A x \in T : sum(T) = f[x] + sum(T \ {x})
<1> DEFINE Bad == {n \in Nat : \E T \in SUBSET S : Cardinality(T) = n /\ ~Fine(T)}
<1>0. \A s \in SUBSET S : IsFiniteSet(s) /\ Cardinality(s) \in Nat
  BY FS_Subset, FS_CardinalityType
<1>1. \A T \in SUBSET S : sum(T) = IF T = {} THEN 0 ELSE f[AnElement(T)] + sum(T \ {AnElement(T)})
  BY <1>0, SumStep
<1>2. \A T \in SUBSET S : T # {} => AnElement(T) \in T
  BY DEF AnElement
<1> HIDE DEF sum
<1>3. Bad = {}
  <2>1. SUFFICES ASSUME Bad # {} PROVE FALSE
    OBVIOUS
  <2>2. PICK m \in Bad : \A n \in Bad : m <= n
    <3> HIDE DEF Bad
    <3>1. Bad \subseteq Nat
      BY DEF Bad
    <3> QED
      BY <2>1, <3>1, NatLeast
  <2>3. PICK T \in SUBSET S : Cardinality(T) = m /\ ~Fine(T)
    BY <2>2
  <2>4. ASSUME NEW x \in T
        PROVE  Fine(T \ {x})
    <3>1. PICK U \in SUBSET S : U = T \ {x}
      OBVIOUS
    <3>2. PICK k \in Nat : k = Cardinality(U)
      BY <1>0
    <3>3. k = m - 1
      BY <1>0, <2>3, <3>1, <3>2, FS_RemoveElement
    <3>4. ~(m <= k)
      BY <2>2, <3>3
    <3> HIDE DEF Fine
    <3>5. ~Fine(U) => k \in Bad
      BY <3>2
    <3> QED
      BY <2>2, <3>1, <3>4, <3>5
  <2>5. T # {}
    <3>1. T = {} => sum(T) = 0
      BY <1>1
    <3> QED
      BY <2>3, <3>1
  <2>6. PICK c \in T : c = AnElement(T)
    BY <1>2, <2>5
  <2>7. sum(T \ {c}) \in Int /\ f[c] \in Int
    BY <2>4
  <2>8. sum(T) = f[c] + sum(T \ {c})
    BY <1>1, <2>5, <2>6
  <2>9. ASSUME NEW x \in T, x # c
        PROVE  sum(T) = f[x] + sum(T \ {x})
    <3>1. x \in T \ {c} /\ c \in T \ {x} /\ (T \ {c}) \ {x} = (T \ {x}) \ {c}
      BY <2>9
    <3>2. PICK rest : rest = sum((T \ {c}) \ {x})
      OBVIOUS
    <3>3. sum(T \ {c}) = f[x] + rest
      BY <2>4, <3>1, <3>2
    <3>4. sum(T \ {x}) = f[c] + rest
      <4>1. Fine(T \ {x})
        BY <2>4
      <4> QED
        BY <4>1, <3>1, <3>2
    <3>5. Fine((T \ {c}) \ {x}) \/ rest \in Int
      <4>1. PICK U \in SUBSET S : U = (T \ {c}) \ {x}
        OBVIOUS
      <4>2. PICK k \in Nat : k = Cardinality(U)
        BY <1>0
      <4>3. PICK j \in Nat : j = Cardinality(T \ {c})
        BY <1>0
      <4>4. j = m - 1
        BY <1>0, <2>3, <4>3, FS_RemoveElement
      <4>5. IsFiniteSet(T \ {c})
        BY <1>0
      <4>6. k = j - 1
        BY <3>1, <4>1, <4>2, <4>3, <4>5, FS_RemoveElement
      <4>7. ~(m <= k)
        BY <2>2, <4>4, <4>6
      <4> HIDE DEF Fine
      <4>8. ~Fine(U) => k \in Bad
        BY <4>2
      <4> QED
        BY <2>2, <4>1, <4>7, <4>8
    <3>6. rest \in Int
      BY <3>2, <3>5
    <3>7. f[x] \in Int
      OBVIOUS
    <3> QED
      BY <2>7, <2>8, <3>3, <3>4, <3>6, <3>7
  <2>10. Fine(T)
    <3>1. sum(T) \in Int
      BY <2>7, <2>8
    <3>2. \A x \in T : sum(T) = f[x] + sum(T \ {x})
      BY <2>8, <2>9
    <3> QED
      BY <3>1, <3>2
  <2> QED
    BY <2>3, <2>10
<1>4. PICK n \in Nat : n = Cardinality(S)
  BY <1>0
<1>5. Fine(S)
  <2> HIDE DEF Fine
  <2> QED
    BY <1>3, <1>4
<1> QED
  BY <1>5 DEF sum

\* Two sums and a third over a part of what they are over: if one function is
\* everywhere the difference of two, but for that part, where the one taken
\* away is left out, then so are the sums.
LEMMA SumsDiffer ==
  ASSUME NEW S, IsFiniteSet(S), NEW C \in SUBSET S, NEW f, NEW g, NEW p,
         \A x \in S : /\ g[x] \in Int /\ p[x] \in Int
                      /\ f[x] = g[x] - (IF x \in C THEN 0 ELSE p[x])
  PROVE  SumFunctionOnSet(g, S) - SumFunctionOnSet(p, S)
           = SumFunctionOnSet(f, S) - SumFunctionOnSet(p, C)
<1> DEFINE F(T) == SumFunctionOnSet(f, T)
<1> DEFINE G(T) == SumFunctionOnSet(g, T)
<1> DEFINE P(T) == SumFunctionOnSet(p, T)
<1> DEFINE Fine(T) == G(T) - P(T) = F(T) - P(T \cap C)
<1> DEFINE Bad == {n \in Nat : \E T \in SUBSET S : Cardinality(T) = n /\ ~Fine(T)}
<1>0. \A s \in SUBSET S : IsFiniteSet(s) /\ Cardinality(s) \in Nat
  BY FS_Subset, FS_CardinalityType
<1>1. \A x \in S : f[x] \in Int
  OBVIOUS
<1>2. \A T \in SUBSET S :
        /\ F(T) \in Int /\ G(T) \in Int /\ P(T) \in Int
        /\ \A x \in T : /\ F(T) = f[x] + F(T \ {x})
                        /\ G(T) = g[x] + G(T \ {x})
                        /\ P(T) = p[x] + P(T \ {x})
  <2> TAKE T \in SUBSET S
  <2>1. F(T) \in Int /\ \A x \in T : F(T) = f[x] + F(T \ {x})
    BY <1>0, <1>1, SumRemove
  <2>2. G(T) \in Int /\ \A x \in T : G(T) = g[x] + G(T \ {x})
    BY <1>0, SumRemove
  <2>3. P(T) \in Int /\ \A x \in T : P(T) = p[x] + P(T \ {x})
    BY <1>0, SumRemove
  <2> HIDE DEF F, G, P
  <2> QED
    BY <2>1, <2>2, <2>3
<1>3. F({}) = 0 /\ G({}) = 0 /\ P({}) = 0
  BY FS_EmptySet, SumStep
<1> HIDE DEF F, G, P
<1>4. Bad = {}
  <2>1. SUFFICES ASSUME Bad # {} PROVE FALSE
    OBVIOUS
  <2>2. PICK m \in Bad : \A n \in Bad : m <= n
    <3> HIDE DEF Bad
    <3>1. Bad \subseteq Nat
      BY DEF Bad
    <3> QED
      BY <2>1, <3>1, NatLeast
  <2>3. PICK T \in SUBSET S : Cardinality(T) = m /\ ~Fine(T)
    BY <2>2
  <2>4. T # {}
    <3>1. {} \cap C = {}
      OBVIOUS
    <3> QED
      BY <1>3, <2>3, <3>1
  <2>5. PICK x \in T : TRUE
    BY <2>4
  <2>6. PICK U \in SUBSET S : U = T \ {x}
    OBVIOUS
  <2>7. Fine(U)
    <3>2. PICK k \in Nat : k = Cardinality(U)
      BY <1>0
    <3>3. k = m - 1
      BY <1>0, <2>3, <2>6, <3>2, FS_RemoveElement
    <3>4. ~(m <= k)
      BY <2>2, <3>3
    <3> HIDE DEF Fine
    <3>5. ~Fine(U) => k \in Bad
      BY <3>2
    <3> QED
      BY <2>2, <3>4, <3>5
  <2>8. /\ F(T) = f[x] + F(U) /\ G(T) = g[x] + G(U) /\ P(T) = p[x] + P(U)
        /\ F(U) \in Int /\ G(U) \in Int /\ P(U) \in Int
    BY <1>2, <2>6
  <2>9. P(U \cap C) \in Int
    BY <1>2
  <2>10. P(T \cap C) = (IF x \in C THEN p[x] ELSE 0) + P(U \cap C)
    <3>1. CASE x \in C
      <4>1. (T \cap C) \ {x} = U \cap C /\ x \in T \cap C /\ T \cap C \in SUBSET S
        BY <3>1, <2>6
      <4>2. PICK V \in SUBSET S : V = T \cap C
        BY <4>1
      <4>3. P(V) = p[x] + P(V \ {x})
        BY <1>2, <4>1, <4>2
      <4> QED
        BY <3>1, <4>1, <4>2, <4>3
    <3>2. CASE x \notin C
      <4>1. T \cap C = U \cap C
        BY <3>2, <2>6
      <4> QED
        BY <2>9, <3>2, <4>1
    <3> QED
      BY <3>1, <3>2
  <2>11. g[x] \in Int /\ p[x] \in Int /\ f[x] = g[x] - (IF x \in C THEN 0 ELSE p[x])
    OBVIOUS
  <2>12. G(T) - P(T) = F(T) - P(T \cap C)
    BY <2>7, <2>8, <2>9, <2>10, <2>11
  <2> QED
    BY <2>3, <2>12
<1>5. PICK n \in Nat : n = Cardinality(S)
  BY <1>0
<1>6. Fine(S)
  <2> HIDE DEF Fine
  <2> QED
    BY <1>4, <1>5
<1>7. S \cap C = C
  OBVIOUS
<1> QED
  BY <1>6, <1>7 DEF F, G, P

\* The books agree in every state, for every agreement, schedule and correction.
THEOREM TheBooksAgree == GridSpec => []BooksAgree
<1>1. SettlementsInv => BooksAgree
  <2> SUFFICES ASSUME SettlementsInv PROVE BooksAgree
    OBVIOUS
  <2>1. PICK S : S = DOMAIN settlements
    OBVIOUS
  <2>2. PICK n \in Nat : S = 1 .. n
    BY <2>1, LenProperties DEF SettlementsInv
  <2>3. IsFiniteSet(S)
    BY <2>2, FS_Interval
  <2> DEFINE g == [i \in S |-> settlements[i].energy * settlements[i].price]
  <2> DEFINE f == [i \in S |-> settlements[i].total]
  <2>4. ASSUME NEW i \in S
        PROVE  /\ g[i] \in Int /\ penalties[i] \in Int
               /\ f[i] = g[i] - (IF i \in corrected THEN 0 ELSE penalties[i])
    <3>1. PICK s \in Settlement : s = settlements[i]
      BY <2>1, ElementOfSeq, LenProperties DEF SettlementsInv
    <3>2. s.energy \in Int /\ s.price \in Int /\ s.site \in GridSites
      BY DEF Settlement
    <3>3. PICK p \in [price : Int, minDeliver : Int, penalty : Int] : p = PPAs[s.site]
      BY <3>2, AgreementTypes
    <3>4. penalties[i] = Shortfall(s.energy, p) * p.penalty
      BY <2>1, <3>1, <3>3 DEF penalties
    <3>5. PICK t \in Int : t = Shortfall(s.energy, p)
      BY <3>2 DEF Shortfall
    <3>6. t * p.penalty \in Int /\ g[i] \in Int
      BY <3>1, <3>2
    <3>7. f[i] = g[i] - (IF i \in corrected THEN 0 ELSE penalties[i])
      BY <2>1, <3>1, <3>3, <3>4 DEF SettlementsInv, TotalsFollow, Due
    <3> QED
      BY <3>4, <3>5, <3>6, <3>7
  <2>5. corrected \in SUBSET S
    BY <2>1 DEF SettlementsInv
  <2> HIDE DEF f, g
  <2>6. SumFunctionOnSet(g, S) - SumFunctionOnSet(penalties, S)
           = SumFunctionOnSet(f, S) - SumFunctionOnSet(penalties, corrected)
    BY <2>3, <2>4, <2>5, SumsDiffer
  <2>7. DOMAIN f = S /\ DOMAIN g = S /\ DOMAIN penalties = S
    BY <2>1 DEF f, g, penalties
  <2>8. Gross = SumFunctionOnSet(g, S) /\ Penalties = SumFunctionOnSet(penalties, S)
    BY <2>1, <2>7 DEF Gross, Penalties, SumFunction, g
  <2>9. SumFunction([i \in DOMAIN settlements |-> settlements[i].total]) = SumFunctionOnSet(f, S)
    BY <2>1, <2>7 DEF SumFunction, f
  <2> QED
    BY <2>6, <2>8, <2>9 DEF BooksAgree, Net
<1> QED
  BY <1>1, SettlementsInitInv, SettlementsNextInv, PTL DEF GridSpec

-----------------------------------------------------------------------------
(* Upkeep: what is not announced does not fall due.                        *)

\* Every turbine with services has a latest one, which is what LastService
\* chooses.
UpkeepInv ==
  /\ today \in Nat
  /\ certs \in [Models -> Seq(Nat)]
  /\ services \in [TurbineIds -> Seq(Nat)]
  /\ \A t \in Recorded : \E d \in ToSet(services[t]) : \A e \in ToSet(services[t]) : e <= d

LEMMA UpkeepInitInv == UpkeepInit => UpkeepInv
BY EmptySeq DEF UpkeepInit, UpkeepInv, Recorded

\* Append adds one element.
LEMMA ToSetAppend ==
  ASSUME NEW s \in Seq(Nat), NEW e \in Nat
  PROVE  /\ Append(s, e) \in Seq(Nat) /\ Append(s, e) # << >>
         /\ ToSet(Append(s, e)) = ToSet(s) \cup {e}
         /\ ToSet(s) \subseteq Nat
         /\ s = << >> => ToSet(s) = {}
<1>1. PICK n \in Nat : n = Len(s) /\ DOMAIN s = 1 .. n /\ (s = << >> => n = 0)
  BY LenProperties, EmptySeq
<1>2. \A i \in 1 .. n : s[i] \in Nat
  BY <1>1, ElementOfSeq
<1>3. PICK a : a = Append(s, e)
  OBVIOUS
<1>4. /\ a \in Seq(Nat) /\ Len(a) = n + 1 /\ DOMAIN a = 1 .. n + 1
      /\ a[n + 1] = e /\ \A i \in 1 .. n : a[i] = s[i]
  BY <1>1, <1>3, AppendProperties, LenProperties
<1>5. a # << >>
  BY <1>4, EmptySeq
<1>6. ToSet(a) = ToSet(s) \cup {e}
  <2>1. ASSUME NEW x \in ToSet(a) PROVE x \in ToSet(s) \cup {e}
    <3>1. PICK i \in 1 .. n + 1 : x = a[i]
      BY <2>1, <1>4 DEF ToSet
    <3>2. CASE i = n + 1
      BY <3>1, <3>2, <1>4
    <3>3. CASE i # n + 1
      <4>1. i \in 1 .. n
        BY <3>3
      <4> QED
        BY <3>1, <4>1, <1>1, <1>4 DEF ToSet
    <3> QED
      BY <3>2, <3>3
  <2>2. ASSUME NEW x \in ToSet(s) PROVE x \in ToSet(a)
    <3>1. PICK i \in 1 .. n : x = s[i]
      BY <2>2, <1>1 DEF ToSet
    <3>2. i \in DOMAIN a /\ a[i] = x
      BY <3>1, <1>4
    <3> QED
      BY <3>2 DEF ToSet
  <2>3. e \in ToSet(a)
    <3>1. n + 1 \in DOMAIN a
      BY <1>4
    <3> QED
      BY <3>1, <1>4 DEF ToSet
  <2> QED
    BY <2>1, <2>2, <2>3
<1>7. ToSet(s) \subseteq Nat /\ (s = << >> => ToSet(s) = {})
  BY <1>1, <1>2 DEF ToSet
<1> QED
  BY <1>3, <1>4, <1>5, <1>6, <1>7

LEMMA UpkeepNextInv ==
  ASSUME UpkeepInv, [CertsNext \/ ServicesNext]_upkeepVars
  PROVE  UpkeepInv'
<1>1. CASE AddCert
  <2>1. PICK m \in Models, expires \in 0 .. LastDay :
          certs' = [certs EXCEPT ![m] = Append(certs[m], expires)]
    BY <1>1 DEF AddCert
  <2>2. Append(certs[m], expires) \in Seq(Nat)
    BY ToSetAppend DEF UpkeepInv
  <2>3. certs' \in [Models -> Seq(Nat)]
    BY <2>1, <2>2 DEF UpkeepInv
  <2> QED
    BY <1>1, <2>3 DEF AddCert, UpkeepInv, Recorded
<1>2. CASE Record
  <2>1. PICK t \in TurbineIds, day \in 1 .. today :
          services' = [services EXCEPT ![t] = Append(services[t], day)]
    BY <1>2 DEF Record
  <2>2. PICK a \in Seq(Nat) : /\ a = Append(services[t], day)
                              /\ ToSet(a) = ToSet(services[t]) \cup {day}
                              /\ ToSet(services[t]) \subseteq Nat
                              /\ services[t] = << >> => ToSet(services[t]) = {}
    <3>1. day \in Nat /\ services[t] \in Seq(Nat)
      BY DEF UpkeepInv
    <3> QED
      BY <3>1, ToSetAppend
  <2>3. services' \in [TurbineIds -> Seq(Nat)] /\ services'[t] = a
        /\ \A u \in TurbineIds : u # t => services'[u] = services[u]
    BY <2>1, <2>2 DEF UpkeepInv
  <2>4. \E d \in ToSet(a) : \A e \in ToSet(a) : e <= d
    <3>1. CASE services[t] = << >>
      BY <2>2, <3>1
    <3>2. CASE services[t] # << >>
      <4>1. PICK d \in ToSet(services[t]) : \A e \in ToSet(services[t]) : e <= d
        BY <3>2 DEF UpkeepInv, Recorded
      <4>2. day \in Nat /\ d \in Nat
        BY <2>2 DEF UpkeepInv
      <4>3. CASE day <= d
        BY <2>2, <4>1, <4>2, <4>3
      <4>4. CASE day > d
        <5>1. \A e \in ToSet(a) : e <= day
          BY <2>2, <4>1, <4>2, <4>4
        <5> QED
          BY <2>2, <5>1
      <4> QED
        BY <4>2, <4>3, <4>4
    <3> QED
      BY <3>1, <3>2
  <2>5. \A u \in Recorded' : \E d \in ToSet(services'[u]) : \A e \in ToSet(services'[u]) : e <= d
    BY <2>3, <2>4 DEF UpkeepInv, Recorded, TurbineIds
  <2> QED
    BY <1>2, <2>3, <2>5 DEF Record, UpkeepInv, Recorded, TurbineIds
<1>3. CASE DayPasses
  BY <1>3 DEF DayPasses, UpkeepInv, Recorded
<1>4. CASE UNCHANGED upkeepVars
  BY <1>4 DEF upkeepVars, UpkeepInv, Recorded
<1> QED
  BY <1>1, <1>2, <1>3, <1>4 DEF CertsNext, ServicesNext

\* A certificate covers the days up to its own, and none without one.
LEMMA StatusCovers ==
  ASSUME NEW expires \in Nat, NEW at \in Nat
  PROVE  Status(expires, at) \in {"valid", "expiring"} <=> expires # 0 /\ at <= expires
BY UpkeepNumbers DEF Status

\* For any fleet, any models and any days: what is said today of the days to
\* come holds on each of them.
THEOREM NothingFallsDueUnannounced == UpkeepSpec => []NothingDueUnannounced
<1>1. ASSUME UpkeepInv, NEW days \in 0 .. Soon, NEW at \in today .. today + days
      PROVE  /\ today \in Nat /\ days \in Nat /\ at \in Nat
             /\ today <= at /\ at <= today + days
  BY <1>1, UpkeepNumbers DEF UpkeepInv
<1>2. ASSUME UpkeepInv, NEW days \in 0 .. Soon, NEW at \in today .. today + days,
             NEW i \in FirstOfModel,
             Turbines[i].id \notin Findings(today), Turbines[i].model \notin Expiring(today, days)
      PROVE  Turbines[i].id \notin Findings(at)
  <2>1. PICK m \in Models : m = Turbines[i].model
    BY ModelsKnown DEF FirstOfModel
  <2>2. ValidFor(m, today)
    BY <1>2, <2>1 DEF Findings
  <2>3. PICK k \in DOMAIN certs[m] : Status(certs[m][k], today) \in {"valid", "expiring"}
    BY <2>2 DEF ValidFor
  <2>4. PICK c \in Nat : c = certs[m][k]
    BY <1>2, ElementOfSeq, LenProperties DEF UpkeepInv
  <2>5. c # 0 /\ today <= c
    BY <1>1, <1>2, <2>3, <2>4, StatusCovers
  <2>6. ~(today <= c /\ today + days > c)
    BY <1>2, <2>1, <2>4 DEF Expiring
  <2>7. at <= c
    BY <1>1, <1>2, <2>5, <2>6
  <2>8. Status(c, at) \in {"valid", "expiring"}
    BY <1>1, <1>2, <2>5, <2>7, StatusCovers
  <2>9. ValidFor(m, at)
    BY <2>4, <2>8 DEF ValidFor
  <2>10. \A j \in FirstOfModel : Turbines[j].id = Turbines[i].id => j = i
    BY IdsOnce DEF FirstOfModel
  <2> QED
    BY <2>1, <2>9, <2>10 DEF Findings
<1>3. ASSUME UpkeepInv, NEW days \in 0 .. Soon, NEW at \in today .. today + days,
             NEW t \in Recorded \ Upcoming(today, days)
      PROVE  ~Overdue(t, at)
  <2>1. PICK d \in ToSet(services[t]) : \A e \in ToSet(services[t]) : e <= d
    BY <1>3 DEF UpkeepInv
  <2>2. ToSet(services[t]) \subseteq Nat
    BY <1>3, ToSetAppend DEF UpkeepInv, Recorded
  <2>3. LastService(t) \in Nat
    BY <2>1, <2>2 DEF LastService
  <2>4. ~(today + days > NextDue(t))
    BY <1>3 DEF Upcoming
  <2> QED
    BY <1>1, <1>3, <2>3, <2>4, UpkeepNumbers DEF Overdue, NextDue
<1>4. UpkeepInv => NothingDueUnannounced
  BY <1>2, <1>3 DEF NothingDueUnannounced
<1> QED
  BY <1>4, UpkeepInitInv, UpkeepNextInv, PTL DEF UpkeepSpec

-----------------------------------------------------------------------------
(* Fleet: every write of the registry reaches the audit trail.             *)

\* A sequence, of whatever elements it has.
IsSeq(s) == s \in Seq(ToSet(s))

WritesOf(id) == {k \in DOMAIN writes : writes[k].turbine = id}
EventsOf(id) == {k \in DOMAIN trail : trail[k] = id}

\* What has been written of a turbine is in the trail or about to be.
Accounted(id) ==
  /\ IsFiniteSet(Unpublished(id))
  /\ Cardinality(WritesOf(id)) = Cardinality(EventsOf(id)) + Cardinality(Unpublished(id))

FleetInv == /\ IsSeq(writes) /\ IsSeq(trail)
            /\ request = [u \in Users |-> request[u]]
            /\ \A u \in Users : "pc" \in DOMAIN request[u]
            /\ \A id \in FleetIds : Accounted(id)

\* Append to a sequence of anything.
LEMMA AppendIsSeq ==
  ASSUME NEW s, IsSeq(s), NEW e
  PROVE  /\ IsSeq(Append(s, e))
         /\ Len(s) \in Nat /\ DOMAIN s = 1 .. Len(s)
         /\ DOMAIN Append(s, e) = 1 .. Len(s) + 1
         /\ Append(s, e)[Len(s) + 1] = e
         /\ \A k \in 1 .. Len(s) : Append(s, e)[k] = s[k]
<1>1. PICK S : S = ToSet(s) \cup {e}
  OBVIOUS
<1>2. PICK n \in Nat : n = Len(s) /\ DOMAIN s = 1 .. n
  BY LenProperties DEF IsSeq
<1>3. s \in Seq(S) /\ e \in S
  <2>1. \A k \in 1 .. n : s[k] \in S
    BY <1>1, <1>2 DEF ToSet
  <2>2. s \in [1 .. n -> S]
    BY <1>2, <2>1, SeqDef DEF IsSeq
  <2> QED
    BY <1>1, <2>2, SeqDef
<1>4. PICK a \in Seq(S) : a = Append(s, e)
  BY <1>3, AppendProperties
<1>5. /\ Len(a) = n + 1 /\ DOMAIN a = 1 .. n + 1
      /\ a[n + 1] = e /\ \A k \in 1 .. n : a[k] = s[k]
  BY <1>2, <1>3, <1>4, AppendProperties, LenProperties
<1>6. a \in Seq(ToSet(a))
  <2>1. \A k \in 1 .. n + 1 : a[k] \in ToSet(a)
    BY <1>5 DEF ToSet
  <2>2. a = [k \in 1 .. n + 1 |-> a[k]]
    <3>1. a \in [1 .. Len(a) -> S]
      BY <1>4, LenProperties
    <3>2. a = [k \in DOMAIN a |-> a[k]]
      BY <3>1
    <3> QED
      BY <3>2, <1>5
  <2>3. a \in [1 .. n + 1 -> ToSet(a)]
    BY <2>1, <2>2
  <2> QED
    BY <2>3, SeqDef
<1> QED
  BY <1>2, <1>4, <1>5, <1>6 DEF IsSeq

\* One more place counts one more.
LEMMA NextPlaceCounts ==
  ASSUME NEW n \in Nat, NEW K \in SUBSET (1 .. n)
  PROVE  Cardinality(K \cup {n + 1}) = Cardinality(K) + 1 /\ Cardinality(K) \in Nat
<1>1. IsFiniteSet(K)
  <2>1. IsFiniteSet(1 .. n)
    BY FS_Interval
  <2> QED
    BY <2>1, FS_Subset
<1>2. n + 1 \notin K
  OBVIOUS
<1> QED
  BY <1>1, <1>2, FS_AddElement, FS_CardinalityType

LEMMA FleetInitInv == FleetInit => FleetInv
<1> SUFFICES ASSUME FleetInit PROVE FleetInv
  OBVIOUS
<1>1. writes = << >> /\ trail = << >> /\ DOMAIN << >> = {} /\ ToSet(<< >>) = {}
  BY DEF FleetInit, ToSet
<1>2. IsSeq(writes) /\ IsSeq(trail)
  BY <1>1, EmptySeq DEF IsSeq
<1>3. \A u \in Users : request[u] = [pc |-> "idle"]
  BY DEF FleetInit, NoRequest
<1>4. \A id : WritesOf(id) = {} /\ EventsOf(id) = {} /\ Unpublished(id) = {}
  BY <1>1, <1>3 DEF WritesOf, EventsOf, Unpublished
<1>5. \A id : Accounted(id)
  BY <1>4, FS_EmptySet DEF Accounted
<1>6. request = [u \in Users |-> request[u]] /\ \A u \in Users : "pc" \in DOMAIN request[u]
  BY <1>3 DEF FleetInit
<1> QED
  BY <1>2, <1>5, <1>6 DEF FleetInv

\* What a request's new record says of it.
LEMMA ProceedSets ==
  ASSUME FleetInv, NEW u \in Users, NEW r, "pc" \in DOMAIN r, Proceed(u, r)
  PROVE  /\ request' = [v \in Users |-> request'[v]]
         /\ request'[u] = r
         /\ \A v \in Users : v # u => request'[v] = request[v]
         /\ \A v \in Users : "pc" \in DOMAIN request'[v]
BY DEF FleetInv, Proceed

\* A write adds one to the writes of its turbine and to its unpublished ones.
LEMMA RegistryWriteKeeps ==
  ASSUME FleetInv, NEW u \in Users, NEW id \in FleetIds, NEW w, w.turbine = id, NEW then,
         request[u].pc = "idle",
         writes' = Append(writes, w), trail' = trail,
         Proceed(u, [pc |-> "publish", turbine |-> id, then |-> then])
  PROVE  FleetInv'
<1>1. PICK r : /\ r = [pc |-> "publish", turbine |-> id, then |-> then]
               /\ r.pc = "publish" /\ r.turbine = id /\ "pc" \in DOMAIN r
  OBVIOUS
<1>2. /\ request' = [v \in Users |-> request'[v]]
      /\ request'[u] = r
      /\ \A v \in Users : v # u => request'[v] = request[v]
      /\ \A v \in Users : "pc" \in DOMAIN request'[v]
  BY <1>1, ProceedSets
<1>3. PICK n \in Nat : n = Len(writes) /\ DOMAIN writes = 1 .. n
  BY AppendIsSeq DEF FleetInv
<1>4. /\ IsSeq(writes') /\ DOMAIN writes' = 1 .. n + 1
      /\ writes'[n + 1] = w
      /\ \A k \in 1 .. n : writes'[k] = writes[k]
  BY <1>3, AppendIsSeq DEF FleetInv
<1>5. Accounted(id)'
  <2>1. WritesOf(id)' = WritesOf(id) \cup {n + 1}
    BY <1>3, <1>4 DEF WritesOf
  <2>2. EventsOf(id)' = EventsOf(id)
    BY DEF EventsOf
  <2>3. Unpublished(id)' = Unpublished(id) \cup {u} /\ u \notin Unpublished(id)
    BY <1>1, <1>2 DEF Unpublished
  <2>4. PICK K, A, E : K = WritesOf(id) /\ A = Unpublished(id) /\ E = EventsOf(id)
    OBVIOUS
  <2>5. Cardinality(K \cup {n + 1}) = Cardinality(K) + 1
    BY <1>3, <2>4, NextPlaceCounts DEF WritesOf
  <2>6. /\ Cardinality(A \cup {u}) = Cardinality(A) + 1 /\ IsFiniteSet(A \cup {u})
        /\ Cardinality(A) \in Nat
    BY <2>3, <2>4, FS_AddElement, FS_CardinalityType DEF FleetInv, Accounted
  <2>7. Cardinality(K) = Cardinality(E) + Cardinality(A) /\ Cardinality(E) \in Nat
    <3>1. PICK m \in Nat : DOMAIN trail = 1 .. m
      BY AppendIsSeq DEF FleetInv
    <3>2. E \in SUBSET (1 .. m)
      BY <2>4, <3>1 DEF EventsOf
    <3> QED
      BY <2>4, <3>2, NextPlaceCounts DEF FleetInv, Accounted
  <2>8. Cardinality(K \cup {n + 1}) = Cardinality(E) + Cardinality(A \cup {u})
    BY <2>5, <2>6, <2>7
  <2> QED
    BY <2>1, <2>2, <2>3, <2>4, <2>6, <2>8 DEF Accounted
<1>6. \A i \in FleetIds : i # id => Accounted(i)'
  <2> TAKE i \in FleetIds
  <2> HAVE i # id
  <2>1. WritesOf(i)' = WritesOf(i) /\ EventsOf(i)' = EventsOf(i) /\ Unpublished(i)' = Unpublished(i)
    BY <1>1, <1>2, <1>3, <1>4 DEF WritesOf, EventsOf, Unpublished
  <2> QED
    BY <2>1 DEF FleetInv, Accounted
<1>7. IsSeq(trail')
  BY DEF FleetInv
<1> QED
  BY <1>2, <1>4, <1>5, <1>6, <1>7 DEF FleetInv

\* An event moves one from the unpublished writes of its turbine to the trail.
LEMMA PublishKeeps ==
  ASSUME FleetInv, NEW u \in Users, Publish(u)
  PROVE  FleetInv'
<1>1. PICK r : /\ Proceed(u, r)
               /\ "pc" \in DOMAIN r /\ r.pc # "publish"
  <2>1. \A t : LET r == [pc |-> "get", turbine |-> t] IN "pc" \in DOMAIN r /\ r.pc # "publish"
    OBVIOUS
  <2> QED
    BY <2>1 DEF Publish, NoRequest
<1>2. /\ request' = [v \in Users |-> request'[v]]
      /\ request'[u] = r
      /\ \A v \in Users : v # u => request'[v] = request[v]
      /\ \A v \in Users : "pc" \in DOMAIN request'[v]
  BY <1>1, ProceedSets
<1>3. PICK id : id = request[u].turbine
  OBVIOUS
<1>4. PICK n \in Nat : n = Len(trail) /\ DOMAIN trail = 1 .. n
  BY AppendIsSeq DEF FleetInv
<1>5. trail' = Append(trail, id) /\ request[u].pc = "publish" /\ writes' = writes
  BY <1>3 DEF Publish
<1>6. /\ IsSeq(trail') /\ DOMAIN trail' = 1 .. n + 1
      /\ trail'[n + 1] = id
      /\ \A k \in 1 .. n : trail'[k] = trail[k]
  BY <1>4, <1>5, AppendIsSeq DEF FleetInv
<1>7. ASSUME id \in FleetIds
      PROVE  Accounted(id)'
  <2>1. EventsOf(id)' = EventsOf(id) \cup {n + 1}
    BY <1>4, <1>6 DEF EventsOf
  <2>2. WritesOf(id)' = WritesOf(id)
    BY <1>5 DEF WritesOf
  <2>3. Unpublished(id)' = Unpublished(id) \ {u} /\ u \in Unpublished(id)
    BY <1>1, <1>2, <1>3, <1>5 DEF Unpublished
  <2>4. PICK K, A, E : K = WritesOf(id) /\ A = Unpublished(id) /\ E = EventsOf(id)
    OBVIOUS
  <2>5. Cardinality(E \cup {n + 1}) = Cardinality(E) + 1 /\ Cardinality(E) \in Nat
    BY <1>4, <2>4, NextPlaceCounts DEF EventsOf
  <2>6. /\ Cardinality(A \ {u}) = Cardinality(A) - 1 /\ IsFiniteSet(A \ {u})
        /\ Cardinality(A) \in Nat
    BY <1>7, <2>3, <2>4, FS_RemoveElement, FS_CardinalityType DEF FleetInv, Accounted
  <2>7. Cardinality(K) = Cardinality(E) + Cardinality(A)
    BY <1>7, <2>4 DEF FleetInv, Accounted
  <2>8. Cardinality(K) = Cardinality(E \cup {n + 1}) + Cardinality(A \ {u})
    BY <2>5, <2>6, <2>7
  <2> QED
    BY <2>1, <2>2, <2>3, <2>4, <2>6, <2>8 DEF Accounted
<1>8. \A i \in FleetIds : i # id => Accounted(i)'
  <2> TAKE i \in FleetIds
  <2> HAVE i # id
  <2>1. WritesOf(i)' = WritesOf(i) /\ EventsOf(i)' = EventsOf(i) /\ Unpublished(i)' = Unpublished(i)
    BY <1>1, <1>2, <1>3, <1>4, <1>5, <1>6 DEF WritesOf, EventsOf, Unpublished
  <2> QED
    BY <2>1 DEF FleetInv, Accounted
<1>9. IsSeq(writes')
  BY <1>5 DEF FleetInv
<1> QED
  BY <1>2, <1>6, <1>7, <1>8, <1>9 DEF FleetInv

\* The steps of a report, and the answer to an update, write and publish nothing.
LEMMA OtherKeeps ==
  ASSUME FleetInv, NEW u \in Users, NEW r, "pc" \in DOMAIN r, r.pc # "publish",
         Proceed(u, r), request[u].pc # "publish", UNCHANGED <<trail, writes>>
  PROVE  FleetInv'
<1>1. /\ request' = [v \in Users |-> request'[v]]
      /\ request'[u] = r
      /\ \A v \in Users : v # u => request'[v] = request[v]
      /\ \A v \in Users : "pc" \in DOMAIN request'[v]
  BY ProceedSets
<1>2. \A id : WritesOf(id)' = WritesOf(id) /\ EventsOf(id)' = EventsOf(id)
  BY DEF WritesOf, EventsOf
<1>3. \A id : Unpublished(id)' = Unpublished(id)
  BY <1>1 DEF Unpublished
<1>4. \A id \in FleetIds : Accounted(id)'
  BY <1>2, <1>3 DEF FleetInv, Accounted
<1> QED
  BY <1>1, <1>4 DEF FleetInv

LEMMA FleetNextInv ==
  ASSUME FleetInv, [FleetNext]_fleetVars
  PROVE  FleetInv'
<1>1. ASSUME NEW u \in Users, AddPut(u)
      PROVE  FleetInv'
  <2>1. PICK id \in FleetIds, site \in Sites :
          /\ Put(id, [site |-> site, state |-> "running"])
          /\ Proceed(u, [pc |-> "publish", turbine |-> id, then |-> "idle"])
    BY <1>1 DEF AddPut
  <2>2. PICK w : writes' = Append(writes, w) /\ w.turbine = id
    BY <2>1 DEF Put
  <2> QED
    BY <1>1, <2>1, <2>2, RegistryWriteKeeps DEF AddPut
<1>2. ASSUME NEW u \in Users, UpdateWrite(u)
      PROVE  FleetInv'
  <2>1. PICK id \in FleetIds, state \in States :
          /\ UpdateState(id, state)
          /\ Proceed(u, [pc |-> "publish", turbine |-> id, then |-> "get"])
    BY <1>2 DEF UpdateWrite
  <2>2. PICK w : writes' = Append(writes, w) /\ w.turbine = id
    BY <2>1 DEF UpdateState
  <2> QED
    BY <1>2, <2>1, <2>2, RegistryWriteKeeps DEF UpdateWrite
<1>3. ASSUME NEW u \in Users, UpdateGet(u) \/ ReportEnd(u)
      PROVE  FleetInv'
  <2>1. "pc" \in DOMAIN NoRequest /\ NoRequest.pc # "publish"
    BY DEF NoRequest
  <2> QED
    BY <1>3, <2>1, OtherKeeps DEF UpdateGet, ReportEnd
<1>4. ASSUME NEW u \in Users, ReportList(u)
      PROVE  FleetInv'
  <2>1. PICK first, since :
          Proceed(u, [pc |-> "sites", first |-> first, since |-> since, total |-> << >>, rows |-> << >>])
    BY <1>4 DEF ReportList
  <2>2. PICK r : /\ Proceed(u, r) /\ "pc" \in DOMAIN r /\ r.pc # "publish"
    BY <2>1
  <2> QED
    BY <1>4, <2>2, OtherKeeps DEF ReportList
<1>5. ASSUME NEW u \in Users, BuildStats(u)
      PROVE  FleetInv'
  <2>1. PICK total, q : /\ q = request[u] /\ "pc" \in DOMAIN q
                        /\ Proceed(u, [q EXCEPT !.pc = "rows", !.total = total])
    BY <1>5 DEF BuildStats, FleetInv
  <2>2. PICK r : /\ Proceed(u, r) /\ "pc" \in DOMAIN r /\ r.pc # "publish"
    <3>1. PICK r : r = [q EXCEPT !.pc = "rows", !.total = total]
      OBVIOUS
    <3>2. "pc" \in DOMAIN r /\ r.pc = "rows"
      BY <2>1, <3>1
    <3> QED
      BY <2>1, <3>1, <3>2
  <2> QED
    BY <1>5, <2>2, OtherKeeps DEF BuildStats
<1>6. ASSUME NEW u \in Users, BuildRows(u)
      PROVE  FleetInv'
  <2>1. PICK rows, q : /\ q = request[u] /\ "pc" \in DOMAIN q
                        /\ Proceed(u, [q EXCEPT !.pc = "sites", !.rows = rows])
    BY <1>6 DEF BuildRows, FleetInv
  <2>2. PICK r : /\ Proceed(u, r) /\ "pc" \in DOMAIN r /\ r.pc # "publish"
    <3>1. PICK r : r = [q EXCEPT !.pc = "sites", !.rows = rows]
      OBVIOUS
    <3>2. "pc" \in DOMAIN r /\ r.pc = "sites"
      BY <2>1, <3>1
    <3> QED
      BY <2>1, <3>1, <3>2
  <2> QED
    BY <1>6, <2>2, OtherKeeps DEF BuildRows
<1>7. CASE UNCHANGED fleetVars
  <2>1. UNCHANGED <<writes, trail, request>>
    BY <1>7 DEF fleetVars
  <2>2. \A id : Accounted(id)' <=> Accounted(id)
    BY <2>1 DEF Accounted, WritesOf, EventsOf, Unpublished
  <2> QED
    BY <2>1, <2>2 DEF FleetInv
<1> QED
  BY <1>1, <1>2, <1>3, <1>4, <1>5, <1>6, <1>7, PublishKeeps DEF FleetNext

\* For any users, turbines and sites: every write of the registry has its audit
\* event, or a request that is about to publish it, however requests overlap.
THEOREM WritesAreAudited == FleetSpec => []EveryWriteAudited
<1>1. FleetInv => EveryWriteAudited
  BY DEF FleetInv, Accounted, WritesOf, EventsOf, EveryWriteAudited, Count
<1> QED
  BY <1>1, FleetInitInv, FleetNextInv, PTL DEF FleetSpec

-----------------------------------------------------------------------------
(* Fleet: the reports of a run are of one fleet.                           *)

\* The registry lists each turbine once.
RegistryInv ==
  /\ IsSeq(order) /\ IsSeq(writes)
  /\ \A i, j \in DOMAIN order : order[i] = order[j] => i = j
  /\ DOMAIN turbines = {order[i] : i \in DOMAIN order}
  /\ \A id \in DOMAIN turbines : turbines[id] = [site |-> turbines[id].site, state |-> turbines[id].state]

\* A run began with a part of the list that is still its beginning; every row is at
\* its turbine's place; and a turbine that was not moved since is where the run's
\* list has it, and in the rows of that site if they are there, and in no others.
RunInv(r) ==
  /\ r = [pc |-> r.pc, first |-> r.first, since |-> r.since, total |-> r.total, rows |-> r.rows]
  /\ IsSeq(r.first) /\ Len(r.first) <= Len(order)
  /\ r.since \in Nat /\ r.since <= Len(writes)
  /\ \A i \in DOMAIN r.first : r.first[i].turbine = order[i]
  /\ \A site \in DOMAIN r.total :
       /\ r.total[site].total \in Nat /\ Len(r.first) <= r.total[site].total
       /\ r.total[site].active + r.total[site].maintenance <= r.total[site].total
  /\ \A site \in DOMAIN r.rows : \A k \in DOMAIN r.rows[site] : k \in DOMAIN order /\ r.rows[site][k] = order[k]
  /\ \A i \in DOMAIN r.first : ~MovedSince(r.first[i], r.since) =>
       /\ turbines[order[i]].site = r.first[i].site
       /\ \A site \in DOMAIN r.rows : i \in DOMAIN r.rows[site] <=> site = r.first[i].site

Reporting(u) == request[u].pc \in {"sites", "rows"}

ReportsInv == FleetInv /\ RegistryInv /\ \A u \in Users : Reporting(u) => RunInv(request[u])

\* A write of turbine id, at site w.site, leaves what is known of a run.
LEMMA RunKept ==
  ASSUME RegistryInv, RegistryInv', NEW r, RunInv(r), NEW w,
         writes' = Append(writes, w),
         DOMAIN order \subseteq DOMAIN order',
         \A k \in DOMAIN order : order'[k] = order[k],
         Len(order) <= Len(order'),
         w.turbine \in DOMAIN turbines',
         turbines'[w.turbine].site = w.site,
         \A id \in DOMAIN turbines : id # w.turbine => turbines'[id] = turbines[id]
  PROVE  RunInv(r)'
<1>1. PICK n \in Nat : /\ n = Len(writes) /\ DOMAIN writes = 1 .. n /\ DOMAIN writes' = 1 .. n + 1
                       /\ writes'[n + 1] = w /\ \A k \in 1 .. n : writes'[k] = writes[k]
                       /\ Len(writes') = n + 1
  <2>1. IsSeq(writes) /\ IsSeq(writes')
    BY DEF RegistryInv
  <2>2. Len(writes') \in Nat /\ DOMAIN writes' = 1 .. Len(writes')
    BY <2>1, LenProperties DEF IsSeq
  <2>3. PICK n \in Nat : /\ n = Len(writes) /\ DOMAIN writes = 1 .. n /\ DOMAIN writes' = 1 .. n + 1
                         /\ writes'[n + 1] = w /\ \A k \in 1 .. n : writes'[k] = writes[k]
    BY <2>1, AppendIsSeq
  <2>4. Len(writes') = n + 1
    <3>1. PICK m \in Nat : m = Len(writes')
      BY <2>2
    <3>2. 1 .. m = 1 .. n + 1
      BY <2>2, <2>3, <3>1
    <3>3. m \in 1 .. n + 1 \/ m = 0
      BY <3>2
    <3>4. n + 1 \in 1 .. m
      BY <3>2
    <3> QED
      BY <3>1, <3>3, <3>4
  <2> QED
    BY <2>3, <2>4
<1>2. PICK f, b : f = r.first /\ b = r.since /\ b \in Nat /\ b <= n
  BY <1>1 DEF RunInv
<1>3. \A t : ~MovedSince(t, b)' => ~MovedSince(t, b) /\ (w.turbine = t.turbine => w.site = t.site)
  <2> SUFFICES ASSUME NEW t, MovedSince(t, b) \/ (w.turbine = t.turbine /\ w.site # t.site)
               PROVE  MovedSince(t, b)'
    OBVIOUS
  <2>1. CASE MovedSince(t, b)
    <3>1. PICK k \in b + 1 .. n : writes[k].turbine = t.turbine /\ writes[k].site # t.site
      BY <2>1, <1>1 DEF MovedSince
    <3>2. k \in 1 .. n /\ k \in b + 1 .. n + 1
      BY <1>2, <3>1
    <3> QED
      BY <1>1, <3>1, <3>2 DEF MovedSince
  <2>2. CASE w.turbine = t.turbine /\ w.site # t.site
    <3>1. n + 1 \in b + 1 .. n + 1
      BY <1>2
    <3> QED
      BY <1>1, <2>2, <3>1 DEF MovedSince
  <2> QED
    BY <2>1, <2>2
<1>4. ASSUME NEW i \in DOMAIN f
      PROVE  f[i].turbine = order[i] /\ i \in DOMAIN order /\ order'[i] = order[i]
  <2>1. i \in DOMAIN order
    <3>1. IsSeq(f) /\ Len(f) <= Len(order) /\ IsSeq(order)
      BY <1>2 DEF RunInv, RegistryInv
    <3>2. /\ Len(f) \in Nat /\ DOMAIN f = 1 .. Len(f)
          /\ Len(order) \in Nat /\ DOMAIN order = 1 .. Len(order)
      BY <3>1, LenProperties DEF IsSeq
    <3> QED
      BY <3>1, <3>2
  <2> QED
    BY <1>2, <2>1 DEF RunInv
<1>5. ASSUME NEW i \in DOMAIN f, ~MovedSince(f[i], b)'
      PROVE  (turbines[order[i]].site)' = f[i].site
             /\ \A site \in DOMAIN r.rows : i \in DOMAIN r.rows[site] <=> site = f[i].site
  <2>1. PICK t : t = f[i]
    OBVIOUS
  <2>2. ~MovedSince(t, b) /\ (w.turbine = t.turbine => w.site = t.site)
    BY <1>3, <1>5, <2>1
  <2>3. turbines[order[i]].site = t.site
        /\ \A site \in DOMAIN r.rows : i \in DOMAIN r.rows[site] <=> site = f[i].site
    BY <1>2, <2>1, <2>2 DEF RunInv
  <2>4. order[i] \in DOMAIN turbines
    BY <1>4 DEF RegistryInv
  <2>5. turbines'[order[i]].site = t.site
    BY <1>4, <2>1, <2>2, <2>3, <2>4
  <2> QED
    BY <1>4, <2>1, <2>3, <2>5
<1>6. Len(f) <= Len(order')
  <2>1. /\ Len(f) \in Nat /\ Len(order) \in Nat /\ Len(order') \in Nat
    BY <1>2, LenProperties DEF RunInv, RegistryInv, IsSeq
  <2> QED
    BY <1>2, <2>1 DEF RunInv
<1>7. b <= Len(writes')
  BY <1>1, <1>2
<1> QED
  BY <1>2, <1>4, <1>5, <1>6, <1>7 DEF RunInv


\* A run that nothing is written under keeps what is known of it.
LEMMA RunIdle ==
  ASSUME NEW r, RunInv(r), UNCHANGED <<turbines, order, writes>>
  PROVE  RunInv(r)'
BY DEF RunInv, MovedSince

LEMMA PutRegisters ==
  ASSUME RegistryInv, NEW id, NEW site, NEW state, Put(id, [site |-> site, state |-> state])
  PROVE  /\ RegistryInv'
         /\ \A r : RunInv(r) => RunInv(r)'
<1>1. PICK t : t = [site |-> site, state |-> state]
  OBVIOUS
<1>2. t.site = site /\ t = [site |-> t.site, state |-> t.state]
  BY <1>1
<1>3. PICK w : /\ w = [turbine |-> id, site |-> t.site] /\ writes' = Append(writes, w)
               /\ w.turbine = id /\ w.site = t.site
  BY <1>1 DEF Put
<1>4. /\ DOMAIN turbines' = DOMAIN turbines \cup {id}
      /\ turbines'[id] = t
      /\ \A x \in DOMAIN turbines : x # id => turbines'[x] = turbines[x]
  BY <1>1 DEF Put
<1>5. PICK n \in Nat : n = Len(order) /\ DOMAIN order = 1 .. n
  BY LenProperties DEF RegistryInv, IsSeq
<1>6. /\ IsSeq(order') /\ DOMAIN order \subseteq DOMAIN order'
      /\ \A k \in DOMAIN order : order'[k] = order[k]
      /\ \A i, j \in DOMAIN order' : order'[i] = order'[j] => i = j
      /\ DOMAIN turbines' = {order'[i] : i \in DOMAIN order'}
      /\ Len(order) <= Len(order')
  <2>1. CASE id \in DOMAIN turbines
    <3>1. order' = order /\ DOMAIN turbines' = DOMAIN turbines
      BY <2>1, <1>4 DEF Put
    <3> QED
      BY <3>1, <1>5 DEF RegistryInv
  <2>2. CASE id \notin DOMAIN turbines
    <3>1. order' = Append(order, id)
      BY <2>2 DEF Put
    <3>2. /\ IsSeq(order') /\ DOMAIN order' = 1 .. n + 1
          /\ order'[n + 1] = id /\ \A k \in 1 .. n : order'[k] = order[k]
      BY <3>1, <1>5, AppendIsSeq DEF RegistryInv
    <3>3. \A k \in 1 .. n : order[k] # id
      BY <2>2, <1>5 DEF RegistryInv
    <3>4. 1 .. n + 1 = (1 .. n) \cup {n + 1}
      OBVIOUS
    <3>5. \A i, j \in DOMAIN order' : order'[i] = order'[j] => i = j
      BY <3>2, <3>3, <3>4, <1>5 DEF RegistryInv
    <3>6. DOMAIN turbines' = {order'[i] : i \in DOMAIN order'}
      <4>1. {order'[i] : i \in (1 .. n) \cup {n + 1}} = {order[i] : i \in 1 .. n} \cup {id}
        BY <3>2
      <4> QED
        BY <4>1, <3>2, <3>4, <1>4, <1>5 DEF RegistryInv
    <3>7. Len(order') = n + 1
      <4>1. PICK m \in Nat : m = Len(order') /\ DOMAIN order' = 1 .. m
        BY <3>2, LenProperties DEF IsSeq
      <4>2. 1 .. m = 1 .. n + 1
        BY <4>1, <3>2
      <4>3. m \in 1 .. n + 1 \/ m = 0
        BY <4>2
      <4>4. n + 1 \in 1 .. m
        BY <4>2
      <4> QED
        BY <4>1, <4>3, <4>4
    <3> QED
      BY <3>2, <3>4, <3>5, <3>6, <3>7, <1>5
  <2> QED
    BY <2>1, <2>2
<1>7. IsSeq(writes')
  BY <1>3, AppendIsSeq DEF RegistryInv
<1>8. \A x \in DOMAIN turbines' : turbines'[x] = [site |-> turbines'[x].site, state |-> turbines'[x].state]
  BY <1>2, <1>4 DEF RegistryInv
<1>9. RegistryInv'
  BY <1>6, <1>7, <1>8 DEF RegistryInv
<1> QED
  BY <1>3, <1>4, <1>6, <1>9, RunKept

LEMMA UpdateRegisters ==
  ASSUME RegistryInv, NEW id, NEW state, UpdateState(id, state)
  PROVE  /\ RegistryInv'
         /\ \A r : RunInv(r) => RunInv(r)'
<1>1. PICK t : t = turbines[id]
  OBVIOUS
<1>2. id \in DOMAIN turbines /\ t = [site |-> t.site, state |-> t.state]
  BY <1>1 DEF UpdateState, RegistryInv
<1>3. PICK w : /\ w = [turbine |-> id, site |-> t.site] /\ writes' = Append(writes, w)
               /\ w.turbine = id /\ w.site = t.site
  BY <1>1 DEF UpdateState
<1>4. PICK new : new = [t EXCEPT !.state = state]
  OBVIOUS
<1>5. new = [site |-> t.site, state |-> state]
  BY <1>2, <1>4
<1>6. new.site = t.site /\ new = [site |-> new.site, state |-> new.state]
  BY <1>5
<1>7. turbines' = [turbines EXCEPT ![id] = new] /\ order' = order
  BY <1>1, <1>4 DEF UpdateState
<1>8. /\ DOMAIN turbines' = DOMAIN turbines
      /\ turbines'[id] = new
      /\ \A x \in DOMAIN turbines : x # id => turbines'[x] = turbines[x]
  BY <1>2, <1>7
<1>9. IsSeq(writes')
  BY <1>3, AppendIsSeq DEF RegistryInv
<1>10. \A x \in DOMAIN turbines' : turbines'[x] = [site |-> turbines'[x].site, state |-> turbines'[x].state]
  BY <1>6, <1>8 DEF RegistryInv
<1>11. RegistryInv'
  BY <1>7, <1>8, <1>9, <1>10 DEF RegistryInv
<1>12. Len(order) <= Len(order')
  BY <1>7, LenProperties DEF RegistryInv, IsSeq
<1> QED
  BY <1>2, <1>3, <1>6, <1>7, <1>8, <1>11, <1>12, RunKept

-----------------------------------------------------------------------------

\* A request that goes on to a step of no report.
LEMMA RequestsKept ==
  ASSUME ReportsInv, FleetInv', RegistryInv', NEW u \in Users, NEW r, "pc" \in DOMAIN r, Proceed(u, r),
         r.pc \in {"sites", "rows"} => RunInv(r)',
         \A q : RunInv(q) => RunInv(q)'
  PROVE  ReportsInv'
<1>1. /\ request'[u] = r
      /\ \A v \in Users : v # u => request'[v] = request[v]
  BY ProceedSets DEF ReportsInv
<1>2. ASSUME NEW v \in Users, Reporting(v)'
      PROVE  RunInv(request[v])'
  <2>1. CASE v = u
    BY <2>1, <1>1, <1>2 DEF Reporting
  <2>2. CASE v # u
    <3>1. PICK q : q = request[v] /\ q = request'[v]
      BY <2>2, <1>1
    <3>2. RunInv(q)
      BY <3>1, <1>2 DEF ReportsInv, Reporting
    <3>3. RunInv(q)'
      BY <3>2
    <3> QED
      BY <3>1, <3>3
  <2> QED
    BY <2>1, <2>2
<1> QED
  BY <1>2 DEF ReportsInv


\* The statistics count a turbine once: as active, in maintenance or neither.
LEMMA StatsCount ==
  ASSUME RegistryInv
  PROVE  /\ Stats.total = Len(order) /\ Len(order) \in Nat
         /\ Stats.active + Stats.maintenance <= Stats.total
<1>1. PICK n \in Nat : n = Len(order) /\ DOMAIN order = 1 .. n
  BY LenProperties DEF RegistryInv, IsSeq
<1>2. PICK A, M : /\ A = {k \in 1 .. n : Active(turbines[order[k]])}
                  /\ M = {k \in 1 .. n : turbines[order[k]].state = "maintenance"}
  OBVIOUS
<1>3. Stats = [total |-> n, active |-> Cardinality(A), maintenance |-> Cardinality(M)]
  BY <1>1, <1>2 DEF Stats, Listed
<1>4. A \cap M = {} /\ A \cup M \subseteq 1 .. n
  BY <1>2 DEF Active
<1>5. IsFiniteSet(1 .. n) /\ Cardinality(1 .. n) = n
  BY FS_Interval
<1>6. IsFiniteSet(A) /\ IsFiniteSet(M) /\ IsFiniteSet(A \cup M)
  BY <1>4, <1>5, FS_Subset
<1>7. Cardinality(A \cup M) = Cardinality(A) + Cardinality(M)
  <2>1. Cardinality(A \cup M) = Cardinality(A) + Cardinality(M) - Cardinality(A \cap M)
    BY <1>6, FS_Union
  <2>2. Cardinality(A \cap M) = 0
    BY <1>4, FS_EmptySet
  <2>3. Cardinality(A) \in Nat /\ Cardinality(M) \in Nat
    BY <1>6, FS_CardinalityType
  <2> QED
    BY <2>1, <2>2, <2>3
<1>8. Cardinality(A \cup M) <= n
  BY <1>4, <1>5, FS_Subset
<1>9. Stats.total = n /\ Stats.active = Cardinality(A) /\ Stats.maintenance = Cardinality(M)
  BY <1>3
<1> QED
  BY <1>1, <1>7, <1>8, <1>9

\* A run without a next turbine has a report for each site of its list.
LEMMA NoNextTurbine ==
  ASSUME NEW r, IsSeq(r.first), NextTurbine(r) = 0, NEW i \in DOMAIN r.first
  PROVE  r.first[i].site \in DOMAIN r.rows
<1> DEFINE I == {k \in 1 .. Len(r.first) : r.first[k].site \notin DOMAIN r.rows}
<1>1. NextTurbine(r) = IF I # {} THEN CHOOSE x \in I : \A y \in I : x <= y ELSE 0
  BY DEF NextTurbine, SelectInSeq, Min
<1>2. Len(r.first) \in Nat /\ DOMAIN r.first = 1 .. Len(r.first)
  BY LenProperties DEF IsSeq
<1>3. I = {}
  <2> SUFFICES ASSUME I # {} PROVE FALSE
    OBVIOUS
  <2>1. I \subseteq Nat
    BY <1>2
  <2>2. PICK m \in I : \A y \in I : m <= y
    BY <2>1, NatLeast
  <2>3. (CHOOSE x \in I : \A y \in I : x <= y) \in I
    BY <2>2
  <2>4. 0 \in I
    BY <1>1, <2>3
  <2> QED
    BY <2>4, <1>2
<1> QED
  BY <1>2, <1>3

LEMMA ReportListKeeps ==
  ASSUME ReportsInv, FleetInv', NEW u \in Users, ReportList(u)
  PROVE  ReportsInv'
<1>1. PICK f : f = [i \in DOMAIN order |-> [turbine |-> order[i], site |-> turbines[order[i]].site]]
  OBVIOUS
<1>2. PICK n \in Nat : n = Len(order) /\ DOMAIN order = 1 .. n
  BY LenProperties DEF ReportsInv, RegistryInv, IsSeq
<1>3. DOMAIN f = 1 .. n /\ \A i \in 1 .. n : f[i].turbine = order[i] /\ f[i].site = turbines[order[i]].site
  BY <1>1, <1>2
<1>4. IsSeq(f) /\ Len(f) = n
  <2>1. PICK S : S = ToSet(f)
    OBVIOUS
  <2>2. \A i \in 1 .. n : f[i] \in S
    BY <1>3, <2>1 DEF ToSet
  <2>3. f = [i \in 1 .. n |-> f[i]]
    BY <1>1, <1>2
  <2>4. f \in [1 .. n -> S]
    BY <2>2, <2>3
  <2>5. f \in Seq(S)
    BY <2>4, SeqDef
  <2>6. PICK m \in Nat : m = Len(f) /\ DOMAIN f = 1 .. m
    BY <2>5, LenProperties
  <2>7. m = n
    <3>1. 1 .. m = 1 .. n
      BY <1>3, <2>6
    <3>2. (m \in 1 .. n \/ m = 0) /\ (n \in 1 .. m \/ n = 0)
      BY <3>1
    <3> QED
      BY <3>2
  <2> QED
    BY <2>1, <2>5, <2>6, <2>7 DEF IsSeq
<1>5. PICK r : r = [pc |-> "sites", first |-> f, since |-> Len(writes), total |-> << >>, rows |-> << >>]
  OBVIOUS
<1>6. r.pc = "sites" /\ r.first = f /\ r.since = Len(writes) /\ r.total = << >> /\ r.rows = << >>
      /\ "pc" \in DOMAIN r
      /\ r = [pc |-> r.pc, first |-> r.first, since |-> r.since, total |-> r.total, rows |-> r.rows]
  BY <1>5
<1>7. Proceed(u, r) /\ UNCHANGED <<turbines, order, trail, writes>>
  BY <1>1, <1>5 DEF ReportList, Listed
<1>8. RunInv(r)
  <2>1. DOMAIN << >> = {}
    OBVIOUS
  <2>2. Len(writes) \in Nat
    BY LenProperties DEF ReportsInv, RegistryInv, IsSeq
  <2>3. DOMAIN r.total = {} /\ DOMAIN r.rows = {}
    BY <1>6, <2>1
  <2>4. \A i \in DOMAIN f : turbines[order[i]].site = f[i].site /\ f[i].turbine = order[i]
    BY <1>3
  <2> QED
    BY <1>2, <1>4, <1>6, <2>2, <2>3, <2>4 DEF RunInv
<1>9. RegistryInv' /\ \A q : RunInv(q) => RunInv(q)'
  BY <1>7, RunIdle DEF ReportsInv, RegistryInv
<1> QED
  BY <1>6, <1>7, <1>8, <1>9, RequestsKept

LEMMA BuildStatsKeeps ==
  ASSUME ReportsInv, FleetInv', NEW u \in Users, BuildStats(u)
  PROVE  ReportsInv'
<1>1. PICK q : q = request[u]
  OBVIOUS
<1>2. RunInv(q) /\ q.pc = "sites"
  BY <1>1 DEF BuildStats, ReportsInv, Reporting
<1>3. PICK site, stats : site = NextSite(q) /\ stats = Stats
  OBVIOUS
<1>4. PICK total : total = [x \in DOMAIN q.total \cup {site} |-> IF x = site THEN stats ELSE q.total[x]]
  OBVIOUS
<1>5. PICK r : r = [pc |-> "rows", first |-> q.first, since |-> q.since, total |-> total, rows |-> q.rows]
  OBVIOUS
<1>6. r.pc = "rows" /\ r.first = q.first /\ r.since = q.since /\ r.total = total /\ r.rows = q.rows
      /\ "pc" \in DOMAIN r
      /\ r = [pc |-> r.pc, first |-> r.first, since |-> r.since, total |-> r.total, rows |-> r.rows]
  BY <1>5
<1>7. Proceed(u, r) /\ UNCHANGED <<turbines, order, trail, writes>>
  <2>1. Proceed(u, [q EXCEPT !.pc = "rows", !.total = Under(@, NextSite(q), Stats)])
    BY <1>1 DEF BuildStats
  <2>2. Under(q.total, NextSite(q), Stats) = total
    BY <1>3, <1>4 DEF Under
  <2>3. PICK mid : mid = [q EXCEPT !.pc = "rows"]
    OBVIOUS
  <2>4. mid = [pc |-> "rows", first |-> q.first, since |-> q.since, total |-> q.total, rows |-> q.rows]
    BY <1>2, <2>3 DEF RunInv
  <2>5. mid.total = q.total
    BY <2>4
  <2>6. [mid EXCEPT !.total = total] = r
    BY <1>5, <2>4
  <2>7. [q EXCEPT !.pc = "rows", !.total = Under(@, NextSite(q), Stats)]
          = [mid EXCEPT !.total = Under(@, NextSite(q), Stats)]
    BY <2>3
  <2>8. [mid EXCEPT !.total = Under(@, NextSite(q), Stats)] = [mid EXCEPT !.total = total]
    BY <2>2, <2>5
  <2> QED
    BY <2>1, <2>6, <2>7, <2>8 DEF BuildStats
<1>8. RunInv(r)
  <2>1. ASSUME NEW x \in DOMAIN total
        PROVE  /\ total[x].total \in Nat /\ Len(q.first) <= total[x].total
               /\ total[x].active + total[x].maintenance <= total[x].total
    <3>1. CASE x = site
      <4>1. total[x] = stats
        BY <1>4, <2>1, <3>1
      <4> QED
        BY <4>1, <1>2, <1>3, StatsCount DEF ReportsInv, RunInv
    <3>2. CASE x # site
      <4>1. x \in DOMAIN q.total /\ total[x] = q.total[x]
        BY <1>4, <2>1, <3>2
      <4> QED
        BY <4>1, <1>2 DEF RunInv
    <3> QED
      BY <3>1, <3>2
  <2> QED
    BY <1>2, <1>6, <2>1 DEF RunInv
<1>9. RegistryInv' /\ \A p : RunInv(p) => RunInv(p)'
  BY <1>7, RunIdle DEF ReportsInv, RegistryInv
<1> QED
  BY <1>6, <1>7, <1>8, <1>9, RequestsKept

\* The rows of a site are those of the turbines at it: of the run's fleet those that
\* were not moved and no others.
LEMMA BuildRowsKeeps ==
  ASSUME ReportsInv, FleetInv', NEW u \in Users, BuildRows(u)
  PROVE  ReportsInv'
<1>1. PICK q : q = request[u]
  OBVIOUS
<1>2. RunInv(q) /\ q.pc = "rows"
  BY <1>1 DEF BuildRows, ReportsInv, Reporting
<1>3. PICK site, new : site = NextSite(q) /\ new = Rows(q)
  OBVIOUS
<1>4. PICK rows : rows = [x \in DOMAIN q.rows \cup {site} |-> IF x = site THEN new ELSE q.rows[x]]
  OBVIOUS
<1>5. PICK r : r = [pc |-> "sites", first |-> q.first, since |-> q.since, total |-> q.total, rows |-> rows]
  OBVIOUS
<1>6. r.pc = "sites" /\ r.first = q.first /\ r.since = q.since /\ r.total = q.total /\ r.rows = rows
      /\ "pc" \in DOMAIN r
      /\ r = [pc |-> r.pc, first |-> r.first, since |-> r.since, total |-> r.total, rows |-> r.rows]
  BY <1>5
<1>7. Proceed(u, r) /\ UNCHANGED <<turbines, order, trail, writes>>
  <2>1. Proceed(u, [q EXCEPT !.pc = "sites", !.rows = Under(@, NextSite(q), Rows(q))])
    BY <1>1 DEF BuildRows
  <2>2. Under(q.rows, NextSite(q), Rows(q)) = rows
    BY <1>3, <1>4 DEF Under
  <2>3. PICK mid : mid = [q EXCEPT !.pc = "sites"]
    OBVIOUS
  <2>4. mid = [pc |-> "sites", first |-> q.first, since |-> q.since, total |-> q.total, rows |-> q.rows]
    BY <1>2, <2>3 DEF RunInv
  <2>5. mid.rows = q.rows
    BY <2>4
  <2>6. [mid EXCEPT !.rows = rows] = r
    BY <1>5, <2>4
  <2>7. [q EXCEPT !.pc = "sites", !.rows = Under(@, NextSite(q), Rows(q))]
          = [mid EXCEPT !.rows = Under(@, NextSite(q), Rows(q))]
    BY <2>3
  <2>8. [mid EXCEPT !.rows = Under(@, NextSite(q), Rows(q))] = [mid EXCEPT !.rows = rows]
    BY <2>2, <2>5
  <2> QED
    BY <2>1, <2>6, <2>7, <2>8 DEF BuildRows
<1>8. /\ DOMAIN new = {k \in DOMAIN order : turbines[order[k]].site = site}
      /\ \A k \in DOMAIN new : new[k] = order[k]
  BY <1>3 DEF Rows, Listed
<1>9. DOMAIN rows = DOMAIN q.rows \cup {site} /\ rows[site] = new
      /\ \A x \in DOMAIN q.rows : x # site => rows[x] = q.rows[x]
  BY <1>4
<1>10. RunInv(r)
  <2>1. \A x \in DOMAIN rows : \A k \in DOMAIN rows[x] : k \in DOMAIN order /\ rows[x][k] = order[k]
    <3> TAKE x \in DOMAIN rows
    <3>1. CASE x = site
      BY <3>1, <1>8, <1>9
    <3>2. CASE x # site
      BY <3>2, <1>2, <1>9 DEF RunInv
    <3> QED
      BY <3>1, <3>2
  <2>2. ASSUME NEW i \in DOMAIN q.first, ~MovedSince(q.first[i], q.since), NEW x \in DOMAIN rows
        PROVE  i \in DOMAIN rows[x] <=> x = q.first[i].site
    <3>1. CASE x = site
      <4>1. i \in DOMAIN order
        <5>1. /\ Len(q.first) \in Nat /\ DOMAIN q.first = 1 .. Len(q.first)
              /\ Len(order) \in Nat /\ DOMAIN order = 1 .. Len(order)
          BY <1>2, LenProperties DEF RunInv, ReportsInv, RegistryInv, IsSeq
        <5>2. Len(q.first) <= Len(order)
          BY <1>2 DEF RunInv
        <5> QED
          BY <5>1, <5>2
      <4>2. turbines[order[i]].site = q.first[i].site
        BY <1>2, <2>2 DEF RunInv
      <4> QED
        BY <3>1, <4>1, <4>2, <1>8, <1>9
    <3>2. CASE x # site
      <4>1. x \in DOMAIN q.rows /\ rows[x] = q.rows[x]
        BY <3>2, <1>9
      <4> QED
        BY <4>1, <1>2, <2>2 DEF RunInv
    <3> QED
      BY <3>1, <3>2
  <2> QED
    BY <1>2, <1>6, <2>1, <2>2 DEF RunInv
<1>11. RegistryInv' /\ \A p : RunInv(p) => RunInv(p)'
  BY <1>7, RunIdle DEF ReportsInv, RegistryInv
<1> QED
  BY <1>6, <1>7, <1>10, <1>11, RequestsKept

LEMMA ReportsNextInv ==
  ASSUME ReportsInv, [FleetNext]_fleetVars
  PROVE  ReportsInv'
<1>1. FleetInv' /\ FleetInv
  BY FleetNextInv DEF ReportsInv
<1>2. ASSUME NEW u \in Users, AddPut(u)
      PROVE  ReportsInv'
  <2>1. PICK id \in FleetIds, site \in Sites :
          /\ Put(id, [site |-> site, state |-> "running"])
          /\ Proceed(u, [pc |-> "publish", turbine |-> id, then |-> "idle"])
    BY <1>2 DEF AddPut
  <2>2. PICK r : r = [pc |-> "publish", turbine |-> id, then |-> "idle"]
    OBVIOUS
  <2>4. r.pc = "publish"
    BY <2>2
  <2>5. ~(r.pc \in {"sites", "rows"})
    BY <2>4
  <2>6. "pc" \in DOMAIN r
    BY <2>2
  <2>3. RegistryInv' /\ \A q : RunInv(q) => RunInv(q)'
    BY <2>1, PutRegisters DEF ReportsInv
  <2> QED
    BY <1>1, <2>1, <2>2, <2>3, <2>5, <2>6, RequestsKept
<1>3. ASSUME NEW u \in Users, UpdateWrite(u)
      PROVE  ReportsInv'
  <2>1. PICK id \in FleetIds, state \in States :
          /\ UpdateState(id, state)
          /\ Proceed(u, [pc |-> "publish", turbine |-> id, then |-> "get"])
    BY <1>3 DEF UpdateWrite
  <2>2. PICK r : r = [pc |-> "publish", turbine |-> id, then |-> "get"]
    OBVIOUS
  <2>4. r.pc = "publish"
    BY <2>2
  <2>5. ~(r.pc \in {"sites", "rows"})
    BY <2>4
  <2>6. "pc" \in DOMAIN r
    BY <2>2
  <2>3. RegistryInv' /\ \A q : RunInv(q) => RunInv(q)'
    BY <2>1, UpdateRegisters DEF ReportsInv
  <2> QED
    BY <1>1, <2>1, <2>2, <2>3, <2>5, <2>6, RequestsKept
<1>4. ASSUME NEW u \in Users, Publish(u) \/ UpdateGet(u) \/ ReportEnd(u)
      PROVE  ReportsInv'
  <2>1. PICK r : Proceed(u, r) /\ "pc" \in DOMAIN r /\ ~(r.pc \in {"sites", "rows"})
    <3>1. \A t : LET r == [pc |-> "get", turbine |-> t] IN "pc" \in DOMAIN r /\ r.pc = "get"
      OBVIOUS
    <3>2. "pc" \in DOMAIN NoRequest /\ NoRequest.pc = "idle"
      BY DEF NoRequest
    <3> QED
      BY <1>4, <3>1, <3>2 DEF Publish, UpdateGet, ReportEnd
  <2>2. UNCHANGED <<turbines, order, writes>>
    BY <1>4 DEF Publish, UpdateGet, ReportEnd
  <2>3. RegistryInv' /\ \A q : RunInv(q) => RunInv(q)'
    BY <2>2, RunIdle DEF ReportsInv, RegistryInv
  <2> QED
    BY <1>1, <2>1, <2>3, RequestsKept
<1>5. CASE UNCHANGED fleetVars
  <2>1. UNCHANGED <<turbines, order, writes, request>>
    BY <1>5 DEF fleetVars
  <2>2. RegistryInv'
    BY <2>1 DEF ReportsInv, RegistryInv
  <2>3. ASSUME NEW u \in Users, Reporting(u)'
        PROVE  RunInv(request[u])'
    <3>1. PICK q : q = request[u] /\ q = request'[u]
      BY <2>1
    <3>2. RunInv(q)
      BY <2>1, <2>3, <3>1 DEF ReportsInv, Reporting
    <3>3. RunInv(q)'
      BY <2>1, <3>2, RunIdle
    <3> QED
      BY <3>1, <3>3
  <2> QED
    BY <1>1, <2>2, <2>3 DEF ReportsInv
<1> QED
  BY <1>1, <1>2, <1>3, <1>4, <1>5, ReportListKeeps, BuildStatsKeeps, BuildRowsKeeps DEF FleetNext

LEMMA ReportsInitInv == FleetInit => ReportsInv
<1> SUFFICES ASSUME FleetInit PROVE ReportsInv
  OBVIOUS
<1>1. FleetInv
  BY FleetInitInv
<1>2. PICK n \in Nat : n = Len(Seed) /\ DOMAIN Seed = 1 .. n
  BY SeedTypes, LenProperties
<1>3. order = [i \in 1 .. n |-> Seed[i].turbine]
  BY <1>2 DEF FleetInit
<1>4. IsSeq(order) /\ DOMAIN order = 1 .. n
  <2>1. \A i \in 1 .. n : order[i] \in ToSet(order)
    BY <1>3 DEF ToSet
  <2>2. order \in [1 .. n -> ToSet(order)]
    BY <1>3, <2>1
  <2> QED
    BY <1>3, <2>2, SeqDef DEF IsSeq
<1>5. \A i, j \in DOMAIN order : order[i] = order[j] => i = j
  BY <1>2, <1>3, SeedTypes
<1>6. DOMAIN turbines = {order[i] : i \in DOMAIN order}
  <2>1. DOMAIN turbines = {Seed[i].turbine : i \in 1 .. n}
    BY <1>2 DEF FleetInit
  <2>2. {order[i] : i \in DOMAIN order} = {Seed[i].turbine : i \in 1 .. n}
    BY <1>3
  <2> QED
    BY <2>1, <2>2
<1>7. \A id \in DOMAIN turbines : turbines[id] = [site |-> turbines[id].site, state |-> turbines[id].state]
  <2> TAKE id \in DOMAIN turbines
  <2>1. PICK t : turbines[id] = [site |-> t.site, state |-> t.state]
    BY DEF FleetInit
  <2> QED
    BY <2>1
<1>8. RegistryInv
  BY <1>1, <1>4, <1>5, <1>6, <1>7 DEF RegistryInv, FleetInv
<1>9. \A u \in Users : ~Reporting(u)
  BY DEF FleetInit, NoRequest, Reporting
<1> QED
  BY <1>1, <1>8, <1>9 DEF ReportsInv

\* For any fleet, sites, users and numbers of writes: a run of site reports has each
\* turbine of the fleet it began with in one row, unless it was moved meanwhile, and
\* counts no turbine twice.
THEOREM ReportsAreOfOneFleet == FleetSpec => []EachTurbineReportedOnce
<1>1. ASSUME ReportsInv, NEW u \in Users, NEW r, r = request[u], r.pc = "sites", NextTurbine(r) = 0
      PROVE  /\ \A i \in DOMAIN r.first : \/ Cardinality(RowsFor(r.first[i].turbine, r.rows)) = 1
                                          \/ MovedSince(r.first[i], r.since)
             /\ \A site \in DOMAIN r.total :
                  /\ Len(r.first) <= r.total[site].total
                  /\ r.total[site].active + r.total[site].maintenance <= r.total[site].total
  <2>1. RunInv(r)
    BY <1>1 DEF ReportsInv, Reporting
  <2>2. ASSUME NEW i \in DOMAIN r.first, ~MovedSince(r.first[i], r.since)
        PROVE  Cardinality(RowsFor(r.first[i].turbine, r.rows)) = 1
    <3>1. PICK site : site = r.first[i].site
      OBVIOUS
    <3>2. site \in DOMAIN r.rows
      BY <1>1, <2>1, <3>1, NoNextTurbine DEF RunInv
    <3>3. \A x \in DOMAIN r.rows : i \in DOMAIN r.rows[x] <=> x = site
      BY <2>1, <2>2, <3>1 DEF RunInv
    <3>4. PICK id : id = r.first[i].turbine
      OBVIOUS
    <3>5. id = order[i] /\ i \in DOMAIN order
      <4>1. i \in DOMAIN order
        <5>1. /\ Len(r.first) \in Nat /\ DOMAIN r.first = 1 .. Len(r.first)
              /\ Len(order) \in Nat /\ DOMAIN order = 1 .. Len(order)
          BY <1>1, <2>1, LenProperties DEF RunInv, ReportsInv, RegistryInv, IsSeq
        <5>2. Len(r.first) <= Len(order)
          BY <2>1 DEF RunInv
        <5> QED
          BY <5>1, <5>2
      <4> QED
        BY <2>1, <3>4, <4>1 DEF RunInv
    <3>6. \A x \in DOMAIN r.rows : \A k \in DOMAIN r.rows[x] :
            r.rows[x][k] = id <=> (k = i /\ x = site)
      <4> TAKE x \in DOMAIN r.rows
      <4> TAKE k \in DOMAIN r.rows[x]
      <4>1. k \in DOMAIN order /\ r.rows[x][k] = order[k]
        BY <2>1 DEF RunInv
      <4>2. order[k] = order[i] <=> k = i
        BY <1>1, <3>5, <4>1 DEF ReportsInv, RegistryInv
      <4> QED
        BY <3>3, <3>5, <4>1, <4>2
    <3>7. RowsFor(id, r.rows) = {<<site, i>>}
      <4>1. <<site, i>> \in RowsFor(id, r.rows)
        BY <3>2, <3>3, <3>6 DEF RowsFor
      <4>2. \A p \in RowsFor(id, r.rows) : p = <<site, i>>
        BY <3>6 DEF RowsFor
      <4> QED
        BY <4>1, <4>2
    <3> QED
      BY <3>4, <3>7, FS_Singleton
  <2>3. \A site \in DOMAIN r.total :
          /\ Len(r.first) <= r.total[site].total
          /\ r.total[site].active + r.total[site].maintenance <= r.total[site].total
    BY <2>1 DEF RunInv
  <2> QED
    BY <2>2, <2>3
<1>2. ReportsInv => EachTurbineReportedOnce
  BY <1>1 DEF EachTurbineReportedOnce
<1> QED
  BY <1>2, ReportsInitInv, ReportsNextInv, PTL DEF FleetSpec

-----------------------------------------------------------------------------
(* Connections: what is known of sessions and heartbeats is true.          *)

Session == [turbine : Connected, closed : BOOLEAN]

\* Open sessions are those the pool knows and those Open put out of it, and
\* every session of a turbine is at most as new as its pooled one.
SessionsInv ==
  /\ sessions \in Seq(Session)
  /\ DOMAIN pool \subseteq Connected
  /\ replaced \in [Connected -> SUBSET Nat]
  /\ \A t \in Connected :
       /\ OpenOf(t) = replaced[t] \cup Pooled(t)
       /\ \A p \in Pooled(t) : p \notin replaced[t] /\ \A s \in OpenedFor(t) : s <= p

\* What came last came within the delay of when it was sent.
HeardInv ==
  /\ instant \in Nat
  /\ DOMAIN lastSeen = DOMAIN heard
  /\ \A t \in DOMAIN heard : /\ heard[t] \in Nat /\ lastSeen[t] \in Int
                             /\ heard[t] <= instant
                             /\ lastSeen[t] <= heard[t] /\ heard[t] - MaxDelay <= lastSeen[t]

LEMMA ConnInitInv == ConnInit => SessionsInv /\ HeardInv
<1> SUFFICES ASSUME ConnInit PROVE SessionsInv /\ HeardInv
  OBVIOUS
<1>1. DOMAIN << >> = {}
  OBVIOUS
<1>2. \A t : OpenedFor(t) = {} /\ OpenOf(t) = {} /\ Pooled(t) = {}
  BY <1>1 DEF ConnInit, OpenOf, OpenedFor, Pooled
<1> QED
  BY <1>1, <1>2, EmptySeq DEF ConnInit, SessionsInv, HeardInv

\* Opening puts the pooled session out and the new one in its place.
LEMMA OpenKeeps ==
  ASSUME SessionsInv, NEW t \in Connected, Open(t)
  PROVE  SessionsInv'
<1>1. PICK n \in Nat : n = Len(sessions) /\ DOMAIN sessions = 1 .. n
  BY LenProperties DEF SessionsInv
<1>2. /\ sessions' \in Seq(Session)
      /\ DOMAIN sessions' = 1 .. n + 1
      /\ sessions'[n + 1] = [turbine |-> t, closed |-> FALSE]
      /\ \A i \in 1 .. n : sessions'[i] = sessions[i]
  <2>1. [turbine |-> t, closed |-> FALSE] \in Session
    BY DEF Session
  <2> QED
    BY <2>1, <1>1, AppendProperties, LenProperties DEF Open, SessionsInv
<1>3. /\ OpenedFor(t)' = OpenedFor(t) \cup {n + 1}
      /\ OpenOf(t)' = OpenOf(t) \cup {n + 1}
      /\ \A u \in Connected : u # t => OpenedFor(u)' = OpenedFor(u) /\ OpenOf(u)' = OpenOf(u)
      /\ \A u : OpenedFor(u) \subseteq 1 .. n /\ OpenOf(u) \subseteq OpenedFor(u)
  BY <1>1, <1>2 DEF OpenOf, OpenedFor
<1>4. /\ DOMAIN pool' = DOMAIN pool \cup {t}
      /\ Pooled(t)' = {n + 1}
      /\ \A u \in Connected : u # t => Pooled(u)' = Pooled(u)
  BY <1>1 DEF Open, Pooled
<1>5. /\ replaced' \in [Connected -> SUBSET Nat]
      /\ replaced'[t] = OpenOf(t)
      /\ \A u \in Connected : u # t => replaced'[u] = replaced[u]
  BY <1>3 DEF Open, SessionsInv
<1>6. ASSUME NEW u \in Connected
      PROVE  /\ OpenOf(u)' = replaced'[u] \cup Pooled(u)'
             /\ \A p \in Pooled(u)' : p \notin replaced'[u] /\ \A s \in OpenedFor(u)' : s <= p
  <2>1. CASE u = t
    <3>1. OpenOf(t)' = replaced'[t] \cup Pooled(t)'
      BY <1>3, <1>4, <1>5
    <3>2. n + 1 \notin replaced'[t] /\ \A s \in OpenedFor(t)' : s <= n + 1
      BY <1>3, <1>5
    <3> QED
      BY <2>1, <3>1, <3>2, <1>4
  <2>2. CASE u # t
    BY <2>2, <1>3, <1>4, <1>5 DEF SessionsInv
  <2> QED
    BY <2>1, <2>2
<1>7. DOMAIN pool' \subseteq Connected
  BY <1>4 DEF SessionsInv
<1> QED
  BY <1>2, <1>5, <1>6, <1>7 DEF SessionsInv

\* Closing takes the pooled session, and no other, from the turbine's open ones.
LEMMA CloseKeeps ==
  ASSUME SessionsInv, NEW t \in Connected, Close(t)
  PROVE  SessionsInv'
<1>1. PICK n \in Nat : n = Len(sessions) /\ DOMAIN sessions = 1 .. n
  BY LenProperties DEF SessionsInv
<1>2. PICK p \in 1 .. n : /\ t \in DOMAIN pool /\ p = pool[t] /\ Pooled(t) = {p}
                          /\ p \in OpenedFor(t) /\ p \notin replaced[t]
  <2>1. t \in DOMAIN pool /\ Pooled(t) = {pool[t]}
    BY DEF Close, Pooled
  <2>2. pool[t] \in OpenOf(t) /\ pool[t] \notin replaced[t]
    BY <2>1 DEF SessionsInv
  <2> QED
    BY <1>1, <2>1, <2>2 DEF OpenOf, OpenedFor
<1>3. \A i \in 1 .. n : sessions[i] \in Session
  BY <1>1, ElementOfSeq DEF SessionsInv
<1>4. /\ sessions' \in Seq(Session)
      /\ DOMAIN sessions' = 1 .. n
      /\ (sessions'[p]).closed = TRUE /\ (sessions'[p]).turbine = sessions[p].turbine
      /\ \A i \in 1 .. n : i # p => sessions'[i] = sessions[i]
  <2>1. PICK s \in Session : s = [sessions[p] EXCEPT !.closed = TRUE]
    BY <1>2, <1>3 DEF Session
  <2>2. sessions' = [sessions EXCEPT ![p] = s]
    BY <2>1, <1>2 DEF Close
  <2>3. s.closed = TRUE /\ s.turbine = sessions[p].turbine
    BY <2>1, <1>2, <1>3 DEF Session
  <2>4. sessions' \in Seq(Session) /\ DOMAIN sessions' = 1 .. n /\ sessions'[p] = s
    BY <2>2, <1>1, <1>2, ExceptSeq DEF SessionsInv
  <2> QED
    BY <2>2, <2>3, <2>4, <1>1
<1>5. /\ OpenOf(t)' = OpenOf(t) \ {p}
      /\ \A u \in Connected : u # t => OpenOf(u)' = OpenOf(u)
      /\ \A u : OpenedFor(u)' = OpenedFor(u)
  BY <1>1, <1>2, <1>4 DEF OpenOf, OpenedFor
<1>6. /\ DOMAIN pool' = DOMAIN pool \ {t}
      /\ Pooled(t)' = {}
      /\ \A u \in Connected : u # t => Pooled(u)' = Pooled(u)
      /\ replaced' = replaced
  BY DEF Close, Pooled
<1>7. ASSUME NEW u \in Connected
      PROVE  /\ OpenOf(u)' = replaced'[u] \cup Pooled(u)'
             /\ \A q \in Pooled(u)' : q \notin replaced'[u] /\ \A s \in OpenedFor(u)' : s <= q
  <2>1. CASE u = t
    BY <2>1, <1>2, <1>5, <1>6 DEF SessionsInv
  <2>2. CASE u # t
    BY <2>2, <1>5, <1>6 DEF SessionsInv
  <2> QED
    BY <2>1, <2>2
<1> QED
  BY <1>4, <1>6, <1>7 DEF SessionsInv

LEMMA SessionsNextInv ==
  ASSUME SessionsInv, [ConnNext]_connVars
  PROVE  SessionsInv'
<1>1. CASE \E t \in Connected : Open(t) \/ Close(t)
  BY <1>1, OpenKeeps, CloseKeeps
<1>2. CASE UNCHANGED <<sessions, pool, replaced>>
  BY <1>2 DEF SessionsInv, OpenOf, OpenedFor, Pooled
<1> QED
  BY <1>1, <1>2 DEF ConnNext, connVars, Seen, InstantPasses

LEMMA HeardNextInv ==
  ASSUME HeardInv, [ConnNext]_connVars
  PROVE  HeardInv'
<1>1. ASSUME NEW t \in Connected, NEW d \in 0 .. MaxDelay, d <= instant, Seen(t, instant - d)
      PROVE  HeardInv'
  BY <1>1, DelayAndTimeout DEF HeardInv, Seen
<1>2. CASE InstantPasses
  BY <1>2 DEF HeardInv, InstantPasses
<1>3. CASE UNCHANGED <<lastSeen, heard, instant>>
  BY <1>3 DEF HeardInv
<1> QED
  BY <1>1, <1>2, <1>3 DEF ConnNext, connVars, Open, Close

\* For any turbines, timeout and delay: what SessionPool and Heartbeat say of a
\* turbine is true of its connection.
THEOREM ConnectionsAreKnown == ConnSpec => []ConnectionsKnown
<1>1. ASSUME SessionsInv, HeardInv, NEW t \in Connected, t \in DOMAIN heard
      PROVE  /\ instant - heard[t] > Timeout => t \in Stale
             /\ t \in Stale => instant - heard[t] > Timeout - MaxDelay
  BY <1>1, DelayAndTimeout DEF HeardInv, Stale
<1>2. SessionsInv /\ HeardInv => ConnectionsKnown
  BY <1>1 DEF ConnectionsKnown, SessionsInv
<1> QED
  BY <1>2, ConnInitInv, SessionsNextInv, HeardNextInv, PTL DEF ConnSpec

=============================================================================
