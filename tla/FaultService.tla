---------------------------- MODULE FaultService ----------------------------
(***************************************************************************)
(* internal/fault: Service (service.go) over Store (store.go).             *)
(*                                                                         *)
(* Every operation of the service is TWO operations of the store, each     *)
(* under the store's lock and nothing held in between: a read (ListOpen or *)
(* Get) and a write (Create or Transition).  One action per acquisition of *)
(* the lock; `call` keeps what a caller carries from the first to the      *)
(* second.  HTTP handlers, the ingest pipeline and the fault-to-work-order *)
(* flow are all such callers.                                              *)
(*                                                                         *)
(* The store's map and its `order` slice are one sequence: NewID never     *)
(* repeats and nothing is removed, so a fault's position is its id.        *)
(* Severity, timestamps and the revision are written and never read by     *)
(* these operations.  A call that returns after its read (an equivalent    *)
(* fault exists, an unknown id, a refused state) changes nothing, and is   *)
(* no step.                                                                *)
(***************************************************************************)
EXTENDS FaultStates, Naturals, Sequences, FiniteSets

CONSTANTS
  Callers,        \* goroutines that may be inside the service at once
  Turbines,       \* turbine ids
  NoTurbine,      \* the empty turbine id, which Create refuses
  Codes,          \* fault codes
  DirectTargets,  \* states other code moves faults to with Store.Transition;
                  \* {} in the program as it is wired
  MaxFaults       \* bound: no Raise begins a create beyond this many faults

ASSUME CallersFinite == IsFiniteSet(Callers)
ASSUME NoTurbineIsNone == NoTurbine \notin Turbines
ASSUME DirectTargetsAreStates == DirectTargets \subseteq State

VARIABLES
  faults,  \* Store.faults and Store.order
  call     \* per caller, what it read and is about to act on

vars == <<faults, call>>

Fault == [turbine : Turbines, code : Codes, state : State]

Idle == [op |-> "idle"]

Call == {Idle}
        \cup [op : {"create"}, turbine : Turbines \cup {NoTurbine}, code : Codes]
        \cup [op : {"acknowledge", "resolve"}, id : Nat]

Same(f, t, k) == f.turbine = t /\ f.code = k

IsOpen(f) == ~TerminalState(f.state)

\* What Raise looks for in ListOpen.
OpenFor(t, k) == {i \in DOMAIN faults : IsOpen(faults[i]) /\ Same(faults[i], t, k)}

\* The callers that found no equivalent open fault and have not yet created one.
Creating == {c \in Callers : call[c].op = "create"}
CreatingFor(t, k) == {c \in Creating : Same(call[c], t, k)}

-----------------------------------------------------------------------------

Init == /\ faults = << >>
        /\ call = [c \in Callers |-> Idle]

Begin(c, next) == /\ call[c] = Idle
                  /\ call' = [call EXCEPT ![c] = next]
                  /\ UNCHANGED faults

Return(c) == call' = [call EXCEPT ![c] = Idle]

\* Store.Transition: the state it checks is the one it finds under the lock.
Transition(i, to) ==
  \/ /\ CanTransition(faults[i].state, to)
     /\ faults' = [faults EXCEPT ![i].state = to]
  \/ /\ ~CanTransition(faults[i].state, to)
     /\ UNCHANGED faults

\* Mutant: Raise without the loop over ListOpen.
RaiseLookupBlind(c, t, k) ==
  /\ Len(faults) + Cardinality(Creating) < MaxFaults
  /\ Begin(c, [op |-> "create", turbine |-> t, code |-> k])

\* Service.Raise, its loop over ListOpen.
RaiseLookup(c, t, k) ==
  /\ OpenFor(t, k) = {}
  /\ Len(faults) + Cardinality(Creating) < MaxFaults
  /\ Begin(c, [op |-> "create", turbine |-> t, code |-> k])

\* Mutant: Store.Create accepts an empty turbine id.
RaiseCreateAnyTurbine(c) ==
  /\ call[c].op = "create"
  /\ faults' = Append(faults, [turbine |-> call[c].turbine, code |-> call[c].code,
                               state   |-> "warning"])
  /\ Return(c)

\* Service.Raise, its call of Store.Create.
RaiseCreate(c) ==
  /\ call[c].op = "create"
  /\ \/ /\ call[c].turbine # NoTurbine
        /\ faults' = Append(faults, [turbine |-> call[c].turbine,
                                     code    |-> call[c].code,
                                     state   |-> "warning"])
     \/ call[c].turbine = NoTurbine /\ UNCHANGED faults
  /\ Return(c)

\* Mutant: Acknowledge without its check of the state.
AcknowledgeGetAny(c, i) ==
  Begin(c, [op |-> "acknowledge", id |-> i])

AcknowledgeGet(c, i) ==
  /\ faults[i].state # "normal"
  /\ Begin(c, [op |-> "acknowledge", id |-> i])

AcknowledgeTransition(c) ==
  /\ call[c].op = "acknowledge"
  /\ Transition(call[c].id, "maintenance")
  /\ Return(c)

ResolveGet(c, i) ==
  /\ CanTransition(faults[i].state, "normal")
  /\ Begin(c, [op |-> "resolve", id |-> i])

ResolveTransition(c) ==
  /\ call[c].op = "resolve"
  /\ Transition(call[c].id, "normal")
  /\ Return(c)

\* Store.Transition called by code that does not go through the service.
DirectTransition(i, to) ==
  /\ Transition(i, to)
  /\ UNCHANGED call

Next ==
  \/ \E c \in Callers :
       \/ \E t \in Turbines \cup {NoTurbine}, k \in Codes : RaiseLookup(c, t, k)
       \/ RaiseCreate(c)
       \/ \E i \in DOMAIN faults : AcknowledgeGet(c, i) \/ ResolveGet(c, i)
       \/ AcknowledgeTransition(c)
       \/ ResolveTransition(c)
  \/ \E i \in DOMAIN faults, to \in DirectTargets : DirectTransition(i, to)

Spec == Init /\ [][Next]_vars

-----------------------------------------------------------------------------
(***************************************************************************)
(* Properties.                                                             *)
(***************************************************************************)

\* The store holds well-formed faults and a caller only carries ids the store
\* knows: Get returned them, and nothing is ever deleted.
TypeOK ==
  /\ faults \in Seq(Fault)
  /\ call \in [Callers -> Call]
  /\ \A c \in Callers : call[c].op \in {"acknowledge", "resolve"}
                          => call[c].id \in DOMAIN faults

\* However the lookups and creates of Raise interleave, a turbine and code
\* never have more open faults, made or about to be made, than there are
\* callers inside the service: the unlocked window costs one duplicate per
\* concurrent caller and does not accumulate.
DuplicatesBounded ==
  \A t \in Turbines, k \in Codes :
    Cardinality(OpenFor(t, k)) + Cardinality(CreatingFor(t, k)) <= Cardinality(Callers)

\* Raise: "creates a fault if an equivalent open fault does not already exist
\* for the same turbine and code".
NoDuplicateOpen ==
  \A t \in Turbines, k \in Codes : Cardinality(OpenFor(t, k)) <= 1

\* What a caller read before it let go of the lock still holds when it acts on
\* it.  True when calls do not overlap; what overlapping calls lose.
ActsOnWhatItRead ==
  \A c \in Callers :
    /\ call[c].op = "create" => OpenFor(call[c].turbine, call[c].code) = {}
    /\ call[c].op = "acknowledge" => faults[call[c].id].state # "normal"
    /\ call[c].op = "resolve" => CanTransition(faults[call[c].id].state, "normal")

\* Nothing is lost from the store, and every change of a stored fault is a
\* move of the transition table, although service callers decide on a state
\* they read earlier.
LegalMoves ==
  [][\A i \in DOMAIN faults :
       /\ i \in DOMAIN faults'
       /\ Same(faults'[i], faults[i].turbine, faults[i].code)
       /\ CanTransition(faults[i].state, faults'[i].state)]_vars

\* The faults that are resolved, with no acknowledge under way that may have
\* read them before.
Settled == {i \in DOMAIN faults :
              /\ faults[i].state = "normal"
              /\ \A c \in Callers : call[c].op = "acknowledge" => call[c].id # i}

\* A fault that has left the open list does not come back to it: no
\* acknowledge or resolve, however late, makes Raise find an old fault again.
\* And a fault that is resolved goes back to maintenance by one way only, an
\* acknowledge that read it before: once none is under way it is resolved for
\* good, whoever resolves, acknowledges or raises afterwards.
ClosedStaysClosed ==
  [][/\ \A i \in DOMAIN faults : ~IsOpen(faults[i]) => ~IsOpen(faults'[i])
     /\ Settled \subseteq Settled']_vars

\* With one caller at a time the two halves of each operation are as good as
\* one step: the service is the ledger its comments describe.
Ledger == INSTANCE FaultLedger
LedgerSpec == Ledger!Spec

=============================================================================
