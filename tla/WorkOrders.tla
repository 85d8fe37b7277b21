----------------------------- MODULE WorkOrders -----------------------------
(***************************************************************************)
(* internal/workorder: Scheduler (scheduler.go), CrewPool (crew.go) and    *)
(* Lifecycle (lifecycle.go).                                               *)
(*                                                                         *)
(* The crew pool has a lock.  The scheduler's map of orders has none: HTTP *)
(* requests and the fault-to-work-order flow read and write it as they     *)
(* come.  Every access of the map is an action, and two accesses that are  *)
(* both about to happen, one of them a write, may instead make the Go      *)
(* runtime throw ("concurrent map writes"), which ends the process.        *)
(*                                                                         *)
(* An order's id is its position in `orders`; turbine, title, priority and *)
(* times are written and never read here.  Lifecycle works on a COPY of a  *)
(* list of orders, taken when it is made.                                  *)
(***************************************************************************)
EXTENDS Naturals, Sequences, FiniteSets

CONSTANTS
  Callers,
  CrewOrder,    \* the crews of the pool, in the order NewCrewPool got them
  Strangers,    \* ids that are not crews of the pool but may be named
  NoCrew,       \* the empty crew id
  ReleaseIds,   \* ids somebody calls Release with; {} in the program as wired
  MaxOrders,    \* bound on the orders scheduled
  MaxReleases   \* bound on the releases of one id

VARIABLES
  orders,    \* Scheduler.orders
  free,      \* CrewPool.free; an id the map does not have is not free
  call,      \* per caller: where it is and what it has read
  life,      \* Lifecycle.orders
  released,  \* per id, how often it was released (history)
  thrown     \* the runtime has ended the process

vars == <<orders, free, call, life, released, thrown>>

Crews == {CrewOrder[k] : k \in DOMAIN CrewOrder}
Ids == Crews \cup Strangers

ASSUME CrewTypes == /\ NoCrew \notin Ids
                    /\ ReleaseIds \subseteq Ids
                    /\ \A j, k \in DOMAIN CrewOrder : CrewOrder[j] = CrewOrder[k] => j = k

Idle == [pc |-> "idle"]

Pending == [status |-> "pending", crew |-> NoCrew]

Init == /\ orders = << >>
        /\ free = [k \in Ids |-> k \in Crews]
        /\ call = [c \in Callers |-> Idle]
        /\ life = << >>
        /\ released = [k \in Ids |-> 0]
        /\ thrown = FALSE

Goto(c, next) == call' = [call EXCEPT ![c] = next]

At(c, pc) == ~thrown /\ call[c].pc = pc

-----------------------------------------------------------------------------
(***************************************************************************)
(* Scheduler.                                                              *)
(***************************************************************************)

Writing == {c \in Callers : call[c].pc \in {"insert", "write"}}

\* A request to schedule, to assign or to list reaches the map.
Begin(c) ==
  /\ At(c, "idle")
  /\ \/ Len(orders) + Cardinality({d \in Callers : call[d].pc = "insert"}) < MaxOrders
        /\ Goto(c, [pc |-> "insert"])
     \/ \E o \in DOMAIN orders, p \in Ids \cup {NoCrew} :
          Goto(c, [pc |-> "read", order |-> o, preferred |-> p])
     \/ Goto(c, [pc |-> "list"])
  /\ UNCHANGED <<orders, free, life, released, thrown>>

ScheduleInsert(c) ==
  /\ At(c, "insert")
  /\ orders' = Append(orders, Pending)
  /\ Goto(c, Idle)
  /\ UNCHANGED <<free, life, released, thrown>>

List(c) ==
  /\ At(c, "list")
  /\ Goto(c, Idle)
  /\ UNCHANGED <<orders, free, life, released, thrown>>

\* Assign copies the order and goes on if it is pending.
AssignRead(c) ==
  /\ At(c, "read")
  /\ \/ /\ orders[call[c].order].status = "pending"
        /\ Goto(c, [pc |-> "crew", order |-> call[c].order, preferred |-> call[c].preferred])
     \/ /\ orders[call[c].order].status # "pending"
        /\ Goto(c, Idle)
  /\ UNCHANGED <<orders, free, life, released, thrown>>

FreeInOrder == {m \in DOMAIN CrewOrder : free[CrewOrder[m]]}

FirstFree == {CrewOrder[m] : m \in {j \in FreeInOrder : \A n \in FreeInOrder : j <= n}}

\* CrewPool.Assign: the preferred id if it is free, else the first free crew.
Choice(p) == IF p # NoCrew /\ free[p] THEN {p} ELSE FirstFree

\* Mutant: the pool hands a crew out and leaves it marked free.
AssignCrewFree(c) ==
  /\ At(c, "crew")
  /\ \/ \E k \in Choice(call[c].preferred) :
          Goto(c, [pc |-> "write", order |-> call[c].order, crew |-> k])
     \/ Choice(call[c].preferred) = {} /\ Goto(c, Idle)
  /\ UNCHANGED <<orders, free, life, released, thrown>>

AssignCrew(c) ==
  /\ At(c, "crew")
  /\ \/ \E k \in Choice(call[c].preferred) :
          /\ free' = [free EXCEPT ![k] = FALSE]
          /\ Goto(c, [pc |-> "write", order |-> call[c].order, crew |-> k])
     \/ Choice(call[c].preferred) = {} /\ Goto(c, Idle) /\ UNCHANGED free
  /\ UNCHANGED <<orders, life, released, thrown>>

\* Assign stores its changed copy of the order.
AssignWrite(c) ==
  /\ At(c, "write")
  /\ orders' = [orders EXCEPT ![call[c].order] = [status |-> "scheduled", crew |-> call[c].crew]]
  /\ Goto(c, Idle)
  /\ UNCHANGED <<free, life, released, thrown>>

\* Two accesses of the unprotected map overlap and the runtime notices.
MapThrow ==
  /\ ~thrown
  /\ \E c \in Writing : \E d \in Callers \ {c} : call[d].pc \in {"insert", "write", "read", "list"}
  /\ thrown' = TRUE
  /\ UNCHANGED <<orders, free, call, life, released>>

-----------------------------------------------------------------------------

Release(k) ==
  /\ ~thrown
  /\ released[k] < MaxReleases
  /\ free' = [free EXCEPT ![k] = TRUE]
  /\ released' = [released EXCEPT ![k] = @ + 1]
  /\ UNCHANGED <<orders, call, life, thrown>>

\* NewLifecycle over a list of the scheduler's orders.
LifecycleNew ==
  /\ ~thrown
  /\ life' = orders
  /\ UNCHANGED <<orders, free, call, released, thrown>>

Move(o, from, to) ==
  /\ ~thrown
  /\ life[o].status = from
  /\ life' = [life EXCEPT ![o].status = to]
  /\ UNCHANGED <<orders, free, call, released, thrown>>

Start(o) == Move(o, "scheduled", "in_progress")

Complete(o) == Move(o, "in_progress", "done")

Next == \/ \E c \in Callers : \/ Begin(c)
                              \/ ScheduleInsert(c)
                              \/ List(c)
                              \/ AssignRead(c)
                              \/ AssignCrew(c)
                              \/ AssignWrite(c)
        \/ MapThrow
        \/ \E k \in ReleaseIds : Release(k)
        \/ LifecycleNew
        \/ \E o \in DOMAIN life : Start(o) \/ Complete(o)

Spec == Init /\ [][Next]_vars

-----------------------------------------------------------------------------

\* Who has crew k: orders that name it, and callers about to write it to one.
Holders(k) ==
  {<<"order", o>> : o \in {n \in DOMAIN orders : orders[n].crew = k}} \cup
  {<<"call", c>> : c \in {d \in Callers : call[d].pc = "write" /\ call[d].crew = k}}

\* However Assign calls interleave, a crew has one holder, and none while the
\* pool counts it as free, but for one more for each time it was released by
\* somebody who could not know whether it was still at work; and an order has a
\* crew exactly when it is no longer pending, also in the copy the lifecycle
\* starts and completes orders in.
CrewExclusive ==
  /\ \A k \in Ids : Cardinality(Holders(k)) + (IF free[k] THEN 1 ELSE 0)
                      <= released[k] + (IF k \in Crews THEN 1 ELSE 0)
  /\ \A o \in DOMAIN orders : (orders[o].crew = NoCrew) = (orders[o].status = "pending")
  /\ \A o \in DOMAIN life : (life[o].crew = NoCrew) = (life[o].status = "pending")

\* CrewPool "tracks which maintenance crews are free": a crew it counts as busy
\* is at work or about to be.  Overlapping calls of Assign break this.
NoCrewLost == \A k \in Crews : ~free[k] => Holders(k) # {}

=============================================================================
