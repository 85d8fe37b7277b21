--------------------------- MODULE Faults_proofs ---------------------------
(***************************************************************************)
(* What holds of FaultService for every set of callers, turbines and       *)
(* codes; and of FaultFlow: the pipeline and the order flow use the fault  *)
(* service as FaultService says, no order is announced for an open fault,  *)
(* and faults and alarms account for each other.                           *)
(***************************************************************************)
EXTENDS FaultFlow, FiniteSetTheorems, SequenceTheorems, TLAPS

-----------------------------------------------------------------------------
(***************************************************************************)
(* Types, and what a step may do to the stored faults.                     *)
(***************************************************************************)

\* Moving one stored fault changes its state and nothing else.
LEMMA MoveProperties ==
  ASSUME NEW s \in Seq(Fault), NEW i \in DOMAIN s, NEW to \in State,
         NEW r, r = [s EXCEPT ![i].state = to]
  PROVE  /\ r \in Seq(Fault)
         /\ DOMAIN r = DOMAIN s
         /\ r[i].state = to
         /\ Same(r[i], s[i].turbine, s[i].code)
         /\ \A j \in DOMAIN s \ {i} : r[j] = s[j]
<1>1. i \in 1..Len(s) /\ s[i] \in Fault
  BY ElementOfSeq
<1>2. [s[i] EXCEPT !.state = to] \in Fault
  BY <1>1 DEF Fault
<1>3. r = [s EXCEPT ![i] = [s[i] EXCEPT !.state = to]]
  OBVIOUS
<1>4. r \in Seq(Fault)
  BY <1>1, <1>2, <1>3, ExceptSeq
<1>5. DOMAIN r = DOMAIN s
  BY <1>3
<1> QED
  BY <1>1, <1>3, <1>4, <1>5 DEF Fault, Same

\* Creating a fault adds one at the end and leaves the others as they are.
LEMMA CreateProperties ==
  ASSUME NEW s \in Seq(Fault), NEW f \in Fault
  PROVE  /\ Append(s, f) \in Seq(Fault)
         /\ DOMAIN Append(s, f) = DOMAIN s \cup {Len(s) + 1}
         /\ Len(s) + 1 \notin DOMAIN s
         /\ Append(s, f)[Len(s) + 1] = f
         /\ \A j \in DOMAIN s : Append(s, f)[j] = s[j]
<1>1. Len(s) \in Nat /\ DOMAIN s = 1..Len(s)
  BY LenProperties
<1>2. /\ Append(s, f) \in Seq(Fault)
      /\ Len(Append(s, f)) = Len(s) + 1
      /\ Append(s, f)[Len(s) + 1] = f
      /\ \A j \in 1..Len(s) : Append(s, f)[j] = s[j]
  BY AppendProperties
<1>3. DOMAIN Append(s, f) = 1..(Len(s) + 1)
  BY <1>2, LenProperties
<1> QED
  BY <1>1, <1>2, <1>3

LEMMA TransitionType ==
  ASSUME TypeOK, NEW i \in DOMAIN faults, NEW to \in State, Transition(i, to)
  PROVE  /\ faults' \in Seq(Fault)
         /\ DOMAIN faults' = DOMAIN faults
BY MoveProperties DEF TypeOK, Transition

LEMMA TypeStep ==
  ASSUME TypeOK, [Next]_vars
  PROVE  TypeOK'
<1>1. ASSUME NEW c \in Callers, NEW t \in Turbines \cup {NoTurbine}, NEW k \in Codes,
             RaiseLookup(c, t, k)
      PROVE  TypeOK'
  BY <1>1 DEF TypeOK, RaiseLookup, Begin, Call, Idle
<1>2. ASSUME NEW c \in Callers, RaiseCreate(c)
      PROVE  TypeOK'
  <2> DEFINE new == [turbine |-> call[c].turbine, code |-> call[c].code,
                     state |-> "warning"]
  <2>1. CASE call[c].turbine # NoTurbine /\ faults' = Append(faults, new)
    <3>1. new \in Fault
      BY <1>2, <2>1 DEF TypeOK, RaiseCreate, Call, Idle, Fault, State
    <3>2. faults' \in Seq(Fault) /\ DOMAIN faults \subseteq DOMAIN faults'
      BY <2>1, <3>1, CreateProperties DEF TypeOK
    <3> QED
      BY <1>2, <3>2 DEF TypeOK, RaiseCreate, Return, Call, Idle
  <2>2. CASE UNCHANGED faults
    BY <1>2, <2>2 DEF TypeOK, RaiseCreate, Return, Call, Idle
  <2> QED
    BY <1>2, <2>1, <2>2 DEF RaiseCreate
<1>3. ASSUME NEW c \in Callers, NEW i \in DOMAIN faults, AcknowledgeGet(c, i)
      PROVE  TypeOK'
  BY <1>3 DEF TypeOK, AcknowledgeGet, Begin, Call, Idle
<1>4. ASSUME NEW c \in Callers, NEW i \in DOMAIN faults, ResolveGet(c, i)
      PROVE  TypeOK'
  BY <1>4 DEF TypeOK, ResolveGet, Begin, Call, Idle
<1>5. ASSUME NEW c \in Callers, AcknowledgeTransition(c)
      PROVE  TypeOK'
  <2>1. call[c].id \in DOMAIN faults /\ "maintenance" \in State
    BY <1>5 DEF TypeOK, AcknowledgeTransition, State
  <2>2. faults' \in Seq(Fault) /\ DOMAIN faults' = DOMAIN faults
    BY <1>5, <2>1, TransitionType DEF AcknowledgeTransition
  <2> QED
    BY <1>5, <2>2 DEF TypeOK, AcknowledgeTransition, Return, Call, Idle
<1>6. ASSUME NEW c \in Callers, ResolveTransition(c)
      PROVE  TypeOK'
  <2>1. call[c].id \in DOMAIN faults /\ "normal" \in State
    BY <1>6 DEF TypeOK, ResolveTransition, State
  <2>2. faults' \in Seq(Fault) /\ DOMAIN faults' = DOMAIN faults
    BY <1>6, <2>1, TransitionType DEF ResolveTransition
  <2> QED
    BY <1>6, <2>2 DEF TypeOK, ResolveTransition, Return, Call, Idle
<1>7. ASSUME NEW i \in DOMAIN faults, NEW to \in DirectTargets, DirectTransition(i, to)
      PROVE  TypeOK'
  <2>1. faults' \in Seq(Fault) /\ DOMAIN faults' = DOMAIN faults
    BY <1>7, TransitionType, DirectTargetsAreStates DEF DirectTransition
  <2> QED
    BY <1>7, <2>1 DEF TypeOK, DirectTransition
<1>8. CASE UNCHANGED vars
  BY <1>8 DEF TypeOK, vars, Call
<1> QED
  BY <1>1, <1>2, <1>3, <1>4, <1>5, <1>6, <1>7, <1>8 DEF Next

\* The store stays well formed through every operation of the service, and an
\* id a caller carries between two locks still names a fault.
THEOREM TypeInvariant == Spec => []TypeOK
<1>1. Init => TypeOK
  BY DEF Init, TypeOK, Idle, Call
<1>2. TypeOK /\ [Next]_vars => TypeOK'
  BY TypeStep
<1> QED
  BY <1>1, <1>2, PTL DEF Spec

\* Every step either appends one fresh warning for a waiting creator, or moves
\* one fault along the table, or leaves the faults alone.
LEMMA StepShape ==
  ASSUME TypeOK, [Next]_vars
  PROVE  \/ \E c \in Callers :
              /\ RaiseCreate(c)
              /\ call[c].turbine \in Turbines
              /\ call[c].code \in Codes
              /\ faults' = Append(faults, [turbine |-> call[c].turbine,
                                           code    |-> call[c].code,
                                           state   |-> "warning"])
         \/ \E i \in DOMAIN faults, to \in {"normal", "maintenance"} \cup DirectTargets :
              /\ CanTransition(faults[i].state, to)
              /\ faults' = [faults EXCEPT ![i].state = to]
         \/ faults' = faults
<1>1. CASE \E c \in Callers, t \in Turbines \cup {NoTurbine}, k \in Codes : RaiseLookup(c, t, k)
  BY <1>1 DEF RaiseLookup, Begin
<1>2. CASE \E c \in Callers : RaiseCreate(c)
  <2> PICK c \in Callers : RaiseCreate(c)
    BY <1>2
  <2>1. CASE call[c].turbine = NoTurbine
    BY <2>1 DEF RaiseCreate
  <2>2. CASE call[c].turbine # NoTurbine
    <3>1. call[c] \in Call /\ call[c].op = "create"
      BY DEF RaiseCreate, TypeOK
    <3>2. call[c].turbine \in Turbines /\ call[c].code \in Codes
      BY <2>2, <3>1 DEF Call, Idle
    <3> QED
      BY <2>2, <3>2 DEF RaiseCreate
  <2> QED
    BY <2>1, <2>2
<1>3. CASE \E c \in Callers, i \in DOMAIN faults : AcknowledgeGet(c, i) \/ ResolveGet(c, i)
  BY <1>3 DEF AcknowledgeGet, ResolveGet, Begin
<1>4. CASE \E c \in Callers : AcknowledgeTransition(c) \/ ResolveTransition(c)
  <2> PICK c \in Callers : AcknowledgeTransition(c) \/ ResolveTransition(c)
    BY <1>4
  <2>1. call[c].id \in DOMAIN faults
    BY DEF TypeOK, AcknowledgeTransition, ResolveTransition
  <2> QED
    BY <2>1 DEF AcknowledgeTransition, ResolveTransition, Transition
<1>5. CASE \E i \in DOMAIN faults, to \in DirectTargets : DirectTransition(i, to)
  BY <1>5 DEF DirectTransition, Transition
<1>6. CASE UNCHANGED vars
  BY <1>6 DEF vars
<1> QED
  BY <1>1, <1>2, <1>3, <1>4, <1>5, <1>6 DEF Next

\* The recheck inside Store.Transition is enough: whatever the service read
\* before, and whoever else moves faults, the store only makes legal moves.
THEOREM OnlyLegalMoves == Spec => LegalMoves
<1> DEFINE Legal == \A i \in DOMAIN faults :
                      /\ i \in DOMAIN faults'
                      /\ Same(faults'[i], faults[i].turbine, faults[i].code)
                      /\ CanTransition(faults[i].state, faults'[i].state)
<1>1. TypeOK /\ [Next]_vars => [Legal]_vars
  <2> SUFFICES ASSUME TypeOK, [Next]_vars PROVE Legal
    OBVIOUS
  <2>1. CASE \E r \in Fault : faults' = Append(faults, r)
    BY <2>1, CreateProperties DEF TypeOK, Same, CanTransition
  <2>2. CASE \E i \in DOMAIN faults, to \in {"normal", "maintenance"} \cup DirectTargets :
               /\ CanTransition(faults[i].state, to)
               /\ faults' = [faults EXCEPT ![i].state = to]
    <3> PICK i \in DOMAIN faults, to \in {"normal", "maintenance"} \cup DirectTargets :
               /\ CanTransition(faults[i].state, to)
               /\ faults' = [faults EXCEPT ![i].state = to]
      BY <2>2
    <3>1. to \in State
      BY DirectTargetsAreStates DEF State
    <3>2. /\ DOMAIN faults' = DOMAIN faults
          /\ faults'[i].state = to
          /\ Same(faults'[i], faults[i].turbine, faults[i].code)
          /\ \A j \in DOMAIN faults \ {i} : faults'[j] = faults[j]
      BY <3>1, MoveProperties DEF TypeOK
    <3> QED
      BY <3>2 DEF Same, CanTransition
  <2>3. CASE faults' = faults
    BY <2>3 DEF Same, CanTransition
  <2> QED
    BY <2>1, <2>2, <2>3, StepShape DEF Fault, State
<1> QED
  BY <1>1, TypeInvariant, PTL DEF Spec, LegalMoves

\* Without direct moves to warning or fault, closed faults stay closed.
NoDirectReopening == DirectTargets \cap {"warning", "fault"} = {}

LEMMA ClosedStep ==
  ASSUME TypeOK, [Next]_vars, NoDirectReopening, NEW i \in DOMAIN faults, ~IsOpen(faults[i])
  PROVE  ~IsOpen(faults'[i])
<1>1. CASE \E r \in Fault : faults' = Append(faults, r)
  BY <1>1, CreateProperties DEF TypeOK
<1>2. CASE \E j \in DOMAIN faults, to \in {"normal", "maintenance"} \cup DirectTargets :
             /\ CanTransition(faults[j].state, to)
             /\ faults' = [faults EXCEPT ![j].state = to]
  <2> PICK j \in DOMAIN faults, to \in {"normal", "maintenance"} \cup DirectTargets :
             /\ CanTransition(faults[j].state, to)
             /\ faults' = [faults EXCEPT ![j].state = to]
    BY <1>2
  <2> to \in State
    BY DirectTargetsAreStates DEF State
  <2>1. CASE i # j
    BY <2>1, MoveProperties DEF TypeOK
  <2>2. CASE i = j
    <3>1. faults[i].state \in {"normal", "maintenance"}
      BY DEF IsOpen, TerminalState
    <3>2. to \in {"normal", "maintenance"}
      BY <2>2, <3>1, DirectTargetsAreStates
      DEF CanTransition, Allowed, NoDirectReopening, State
    <3>3. faults'[i].state = to
      BY <2>2, MoveProperties DEF TypeOK
    <3> QED
      BY <3>2, <3>3 DEF IsOpen, TerminalState
  <2> QED
    BY <2>1, <2>2
<1>3. CASE faults' = faults
  BY <1>3
<1> QED
  BY <1>1, <1>2, <1>3, StepShape DEF Fault, State

\* Without direct moves that leave "normal", only acknowledges reopen a
\* resolved fault.
NoDirectReturn == DirectTargets \cap {"warning", "fault", "maintenance"} = {}

\* A move of one fault leaves a settled fault normal, if it is another one, or
\* goes to "normal".
LEMMA MoveKeepsNormal ==
  ASSUME TypeOK, NEW j \in DOMAIN faults, NEW to \in State, Transition(j, to),
         NEW i \in DOMAIN faults, faults[i].state = "normal",
         i # j \/ to \notin {"warning", "fault", "maintenance"}
  PROVE  i \in DOMAIN faults' /\ faults'[i].state = "normal"
<1>1. CASE UNCHANGED faults
  BY <1>1
<1>2. CASE /\ CanTransition(faults[j].state, to)
           /\ faults' = [faults EXCEPT ![j].state = to]
  <2>1. CASE i # j
    BY <1>2, <2>1, MoveProperties DEF TypeOK
  <2>2. CASE i = j /\ to \notin {"warning", "fault", "maintenance"}
    <3>1. to = "normal"
      BY <1>2, <2>2 DEF CanTransition, Allowed
    <3> QED
      BY <1>2, <2>2, <3>1, MoveProperties DEF TypeOK
  <2> QED
    BY <2>1, <2>2
<1> QED
  BY <1>1, <1>2 DEF Transition

LEMMA SettledStep ==
  ASSUME TypeOK, [Next]_vars, NoDirectReturn, NEW i \in Settled
  PROVE  i \in Settled'
<1>1. /\ i \in DOMAIN faults
      /\ faults[i].state = "normal"
      /\ \A c \in Callers : call[c].op = "acknowledge" => call[c].id # i
  BY DEF Settled
<1>2. call \in [Callers -> Call]
  BY DEF TypeOK
<1>3. ASSUME NEW c \in Callers, NEW t \in Turbines \cup {NoTurbine}, NEW k \in Codes,
             RaiseLookup(c, t, k)
      PROVE  i \in Settled'
  BY <1>1, <1>2, <1>3 DEF RaiseLookup, Begin, Settled
<1>4. ASSUME NEW c \in Callers, RaiseCreate(c)
      PROVE  i \in Settled'
  <2>1. i \in DOMAIN faults' /\ faults'[i] = faults[i]
    <3>1. CASE call[c].turbine # NoTurbine
      <4>1. [turbine |-> call[c].turbine, code |-> call[c].code, state |-> "warning"] \in Fault
        BY <1>2, <1>4, <3>1 DEF RaiseCreate, Call, Idle, Fault, State
      <4> QED
        BY <1>1, <1>4, <3>1, <4>1, CreateProperties DEF TypeOK, RaiseCreate
    <3>2. CASE call[c].turbine = NoTurbine
      BY <1>1, <1>4, <3>2 DEF RaiseCreate
    <3> QED
      BY <3>1, <3>2
  <2> QED
    BY <1>1, <1>2, <1>4, <2>1 DEF RaiseCreate, Return, Idle, Settled
<1>5. ASSUME NEW c \in Callers, NEW j \in DOMAIN faults, AcknowledgeGet(c, j)
      PROVE  i \in Settled'
  <2>1. j # i
    BY <1>1, <1>5 DEF AcknowledgeGet
  <2> QED
    BY <1>1, <1>2, <1>5, <2>1 DEF AcknowledgeGet, Begin, Settled
<1>6. ASSUME NEW c \in Callers, NEW j \in DOMAIN faults, ResolveGet(c, j)
      PROVE  i \in Settled'
  BY <1>1, <1>2, <1>6 DEF ResolveGet, Begin, Settled
<1>7. ASSUME NEW c \in Callers, AcknowledgeTransition(c)
      PROVE  i \in Settled'
  <2>1. call[c].id \in DOMAIN faults /\ call[c].id # i /\ "maintenance" \in State
    BY <1>1, <1>7 DEF TypeOK, AcknowledgeTransition, State
  <2>2. i \in DOMAIN faults' /\ faults'[i].state = "normal"
    BY <1>1, <1>7, <2>1, MoveKeepsNormal DEF AcknowledgeTransition
  <2> QED
    BY <1>1, <1>2, <1>7, <2>2 DEF AcknowledgeTransition, Return, Idle, Settled
<1>8. ASSUME NEW c \in Callers, ResolveTransition(c)
      PROVE  i \in Settled'
  <2>1. call[c].id \in DOMAIN faults /\ "normal" \in State
    BY <1>8 DEF TypeOK, ResolveTransition, State
  <2>2. i \in DOMAIN faults' /\ faults'[i].state = "normal"
    BY <1>1, <1>8, <2>1, MoveKeepsNormal DEF ResolveTransition
  <2> QED
    BY <1>1, <1>2, <1>8, <2>2 DEF ResolveTransition, Return, Idle, Settled
<1>9. ASSUME NEW j \in DOMAIN faults, NEW to \in DirectTargets, DirectTransition(j, to)
      PROVE  i \in Settled'
  <2>1. to \in State /\ to \notin {"warning", "fault", "maintenance"}
    BY DirectTargetsAreStates DEF NoDirectReturn
  <2>2. i \in DOMAIN faults' /\ faults'[i].state = "normal"
    BY <1>1, <1>9, <2>1, MoveKeepsNormal DEF DirectTransition
  <2> QED
    BY <1>1, <1>9, <2>2 DEF DirectTransition, Settled
<1>10. CASE UNCHANGED vars
  BY <1>1, <1>10 DEF vars, Settled
<1> QED
  BY <1>3, <1>4, <1>5, <1>6, <1>7, <1>8, <1>9, <1>10 DEF Next

\* A fault that has left the open list never returns to it, and one that is
\* resolved while no acknowledge of it is under way is never taken back, by
\* however many callers and however late.
THEOREM ClosedFaultsStayClosed ==
  ASSUME NoDirectReturn
  PROVE  Spec => ClosedStaysClosed
<1>1. NoDirectReopening
  BY DEF NoDirectReturn, NoDirectReopening
<1>2. TypeOK /\ [Next]_vars
      => [/\ \A i \in DOMAIN faults : ~IsOpen(faults[i]) => ~IsOpen(faults'[i])
          /\ Settled \subseteq Settled']_vars
  BY <1>1, ClosedStep, SettledStep
<1> QED
  BY <1>2, TypeInvariant, PTL DEF Spec, ClosedStaysClosed

-----------------------------------------------------------------------------
(***************************************************************************)
(* How many equivalent faults the unlocked window of Raise can let in.     *)
(***************************************************************************)

LEMMA CountsAreFinite ==
  ASSUME TypeOK, NEW t, NEW k
  PROVE  /\ IsFiniteSet(OpenFor(t, k)) /\ Cardinality(OpenFor(t, k)) \in Nat
         /\ IsFiniteSet(CreatingFor(t, k)) /\ Cardinality(CreatingFor(t, k)) \in Nat
         /\ Cardinality(CreatingFor(t, k)) <= Cardinality(Callers)
<1>1. IsFiniteSet(DOMAIN faults)
  BY LenProperties, FS_Interval DEF TypeOK
<1>2. OpenFor(t, k) \subseteq DOMAIN faults
  BY DEF OpenFor
<1>3. CreatingFor(t, k) \subseteq Callers
  BY DEF CreatingFor, Creating
<1> QED
  BY <1>1, <1>2, <1>3, FS_Subset, FS_CardinalityType, CallersFinite

\* The step in which a creator turns its claim into a fault moves one unit
\* from one term of the sum to the other.
LEMMA CreateMovesOne ==
  ASSUME TypeOK, NEW t, NEW k, NEW c \in Callers, c \in CreatingFor(t, k), RaiseCreate(c),
         faults' = Append(faults, [turbine |-> call[c].turbine,
                                   code    |-> call[c].code,
                                   state   |-> "warning"]),
         call[c].turbine \in Turbines, call[c].code \in Codes
  PROVE  Cardinality(OpenFor(t, k)') + Cardinality(CreatingFor(t, k)')
           = Cardinality(OpenFor(t, k)) + Cardinality(CreatingFor(t, k))
<1> DEFINE new == [turbine |-> call[c].turbine, code |-> call[c].code, state |-> "warning"]
<1>1. new \in Fault
  BY DEF Fault, State
<1>2. OpenFor(t, k)' = OpenFor(t, k) \cup {Len(faults) + 1} /\ Len(faults) + 1 \notin OpenFor(t, k)
  <2>1. IsOpen(new) /\ Same(new, t, k)
    BY DEF IsOpen, TerminalState, Same, CreatingFor
  <2> QED
    BY <1>1, <2>1, CreateProperties DEF TypeOK, OpenFor, IsOpen
<1>3. CreatingFor(t, k)' = CreatingFor(t, k) \ {c}
  BY DEF CreatingFor, Creating, RaiseCreate, Return, TypeOK, Idle
<1>4. Cardinality(OpenFor(t, k)') = Cardinality(OpenFor(t, k)) + 1
  BY <1>2, CountsAreFinite, FS_AddElement
<1>5. Cardinality(CreatingFor(t, k)') = Cardinality(CreatingFor(t, k)) - 1
  BY <1>3, CountsAreFinite, FS_RemoveElement
<1> QED
  BY <1>4, <1>5, CountsAreFinite

\* A step that adds neither an open fault nor a claim cannot raise the sum.
LEMMA FewerIsBounded ==
  ASSUME TypeOK, NEW t, NEW k,
         OpenFor(t, k)' \subseteq OpenFor(t, k), CreatingFor(t, k)' \subseteq CreatingFor(t, k)
  PROVE  /\ Cardinality(OpenFor(t, k)') \in Nat
         /\ Cardinality(CreatingFor(t, k)') \in Nat
         /\ Cardinality(OpenFor(t, k)') + Cardinality(CreatingFor(t, k)')
              <= Cardinality(OpenFor(t, k)) + Cardinality(CreatingFor(t, k))
<1>1. /\ Cardinality(OpenFor(t, k)') \in Nat
      /\ Cardinality(OpenFor(t, k)') <= Cardinality(OpenFor(t, k))
  BY CountsAreFinite, FS_Subset, FS_CardinalityType
<1>2. /\ Cardinality(CreatingFor(t, k)') \in Nat
      /\ Cardinality(CreatingFor(t, k)') <= Cardinality(CreatingFor(t, k))
  BY CountsAreFinite, FS_Subset, FS_CardinalityType
<1> QED
  BY <1>1, <1>2, CountsAreFinite

\* A step that changes no fault's turbine or code, closes or keeps each, and
\* appends nothing leaves no new open fault.
LEMMA MovesOpenNothing ==
  ASSUME TypeOK, [Next]_vars, NoDirectReopening, DOMAIN faults' = DOMAIN faults,
         \A i \in DOMAIN faults : Same(faults'[i], faults[i].turbine, faults[i].code),
         NEW t, NEW k
  PROVE  OpenFor(t, k)' \subseteq OpenFor(t, k)
BY ClosedStep DEF OpenFor, Same

\* Concurrent raises cost at most one duplicate for each caller in the service.
THEOREM DuplicatesAreBounded ==
  ASSUME NoDirectReopening
  PROVE  Spec => []DuplicatesBounded
<1>1. Init => DuplicatesBounded
  <2> SUFFICES ASSUME Init, NEW t \in Turbines, NEW k \in Codes
               PROVE  Cardinality(OpenFor(t, k)) + Cardinality(CreatingFor(t, k))
                        <= Cardinality(Callers)
    BY DEF DuplicatesBounded
  <2>1. OpenFor(t, k) = {} /\ CreatingFor(t, k) = {}
    BY DEF Init, OpenFor, CreatingFor, Creating, Idle
  <2>2. Cardinality(Callers) \in Nat
    BY CallersFinite, FS_CardinalityType
  <2> QED
    BY <2>1, <2>2, FS_EmptySet
<1>2. TypeOK /\ TypeOK' /\ DuplicatesBounded /\ [Next]_vars => DuplicatesBounded'
  <2> SUFFICES ASSUME TypeOK, TypeOK', DuplicatesBounded, [Next]_vars,
                      NEW t \in Turbines, NEW k \in Codes
               PROVE  Cardinality(OpenFor(t, k)') + Cardinality(CreatingFor(t, k)')
                        <= Cardinality(Callers)
    BY DEF DuplicatesBounded
  <2> DEFINE Sum == Cardinality(OpenFor(t, k)) + Cardinality(CreatingFor(t, k))
  <2>0. /\ Cardinality(Callers) \in Nat
        /\ Sum \in Nat
        /\ Sum <= Cardinality(Callers)
    BY CallersFinite, FS_CardinalityType, CountsAreFinite DEF DuplicatesBounded
  <2>1. ASSUME OpenFor(t, k)' \subseteq OpenFor(t, k),
               CreatingFor(t, k)' \subseteq CreatingFor(t, k)
        PROVE  Cardinality(OpenFor(t, k)') + Cardinality(CreatingFor(t, k)')
                 <= Cardinality(Callers)
    <3>1. /\ Cardinality(OpenFor(t, k)') \in Nat
          /\ Cardinality(CreatingFor(t, k)') \in Nat
          /\ Cardinality(OpenFor(t, k)') + Cardinality(CreatingFor(t, k)') <= Sum
      BY <2>1, FewerIsBounded
    <3> QED
      BY <3>1, <2>0
  <2>2. ASSUME NEW c \in Callers, NEW u \in Turbines \cup {NoTurbine}, NEW d \in Codes,
               RaiseLookup(c, u, d)
        PROVE  Cardinality(OpenFor(t, k)') + Cardinality(CreatingFor(t, k)')
                 <= Cardinality(Callers)
    <3>0. OpenFor(t, k)' = OpenFor(t, k)
      BY <2>2 DEF RaiseLookup, Begin, OpenFor
    <3>1. CASE u = t /\ d = k
      <4>1. OpenFor(t, k)' = {}
        BY <2>2, <3>0, <3>1 DEF RaiseLookup
      <4>2. CreatingFor(t, k)' \subseteq Callers
        BY DEF CreatingFor, Creating
      <4>3. /\ Cardinality(CreatingFor(t, k)') \in Nat
            /\ Cardinality(CreatingFor(t, k)') <= Cardinality(Callers)
        BY <4>2, CallersFinite, FS_Subset, FS_CardinalityType
      <4> QED
        BY <4>1, <4>3, <2>0, FS_EmptySet
    <3>2. CASE ~(u = t /\ d = k)
      <4>1. CreatingFor(t, k)' \subseteq CreatingFor(t, k)
        BY <2>2, <3>2 DEF RaiseLookup, Begin, CreatingFor, Creating, Same, TypeOK
      <4> QED
        BY <2>1, <3>0, <4>1
    <3> QED
      BY <3>1, <3>2
  <2>3. ASSUME NEW c \in Callers, RaiseCreate(c)
        PROVE  Cardinality(OpenFor(t, k)') + Cardinality(CreatingFor(t, k)')
                 <= Cardinality(Callers)
    <3> DEFINE new == [turbine |-> call[c].turbine, code |-> call[c].code,
                       state |-> "warning"]
    <3>0. CreatingFor(t, k)' \subseteq CreatingFor(t, k)
      BY <2>3 DEF RaiseCreate, Return, CreatingFor, Creating, TypeOK, Idle
    <3>1. CASE faults' = Append(faults, new) /\ call[c].turbine # NoTurbine
      <4>0. call[c].turbine \in Turbines /\ call[c].code \in Codes
        BY <2>3, <3>1 DEF RaiseCreate, TypeOK, Call, Idle
      <4>1. CASE c \in CreatingFor(t, k)
        <5>1. Cardinality(OpenFor(t, k)') + Cardinality(CreatingFor(t, k)') = Sum
          BY <2>3, <3>1, <4>0, <4>1, CreateMovesOne
        <5> QED
          BY <5>1, <2>0
      <4>2. CASE c \notin CreatingFor(t, k)
        <5>1. new \in Fault /\ ~Same(new, t, k)
          BY <2>3, <4>0, <4>2 DEF RaiseCreate, CreatingFor, Creating, Same, Fault, State
        <5>2. OpenFor(t, k)' \subseteq OpenFor(t, k)
          BY <3>1, <5>1, CreateProperties DEF TypeOK, OpenFor
        <5> QED
          BY <2>1, <3>0, <5>2
      <4> QED
        BY <4>1, <4>2
    <3>2. CASE faults' = faults
      BY <2>1, <3>0, <3>2 DEF OpenFor
    <3> QED
      BY <2>3, <3>1, <3>2 DEF RaiseCreate
  <2>4. ASSUME CreatingFor(t, k)' \subseteq CreatingFor(t, k),
               \/ faults' = faults
               \/ \E i \in DOMAIN faults, to \in State :
                     faults' = [faults EXCEPT ![i].state = to]
        PROVE  Cardinality(OpenFor(t, k)') + Cardinality(CreatingFor(t, k)')
                 <= Cardinality(Callers)
    <3>1. CASE faults' = faults
      BY <2>1, <2>4, <3>1 DEF OpenFor
    <3>2. ASSUME NEW i \in DOMAIN faults, NEW to \in State,
                 faults' = [faults EXCEPT ![i].state = to]
          PROVE  OpenFor(t, k)' \subseteq OpenFor(t, k)
      <4>1. /\ DOMAIN faults' = DOMAIN faults
            /\ Same(faults'[i], faults[i].turbine, faults[i].code)
            /\ \A j \in DOMAIN faults \ {i} : faults'[j] = faults[j]
        <5>1. faults \in Seq(Fault)
          BY DEF TypeOK
        <5> QED
          BY <3>2, <5>1, MoveProperties
      <4>2. \A j \in DOMAIN faults : Same(faults'[j], faults[j].turbine, faults[j].code)
        BY <4>1 DEF Same
      <4> QED
        BY <4>1, <4>2, MovesOpenNothing
    <3> QED
      BY <2>1, <2>4, <3>1, <3>2
  <2>5. ASSUME NEW c \in Callers, NEW i \in DOMAIN faults, AcknowledgeGet(c, i) \/ ResolveGet(c, i)
        PROVE  Cardinality(OpenFor(t, k)') + Cardinality(CreatingFor(t, k)')
                 <= Cardinality(Callers)
    <3>1. faults' = faults /\ CreatingFor(t, k)' \subseteq CreatingFor(t, k)
      BY <2>5 DEF AcknowledgeGet, ResolveGet, Begin, CreatingFor, Creating, TypeOK
    <3> QED
      BY <2>4, <3>1
  <2>6. ASSUME NEW c \in Callers, AcknowledgeTransition(c) \/ ResolveTransition(c)
        PROVE  Cardinality(OpenFor(t, k)') + Cardinality(CreatingFor(t, k)')
                 <= Cardinality(Callers)
    <3>1. CreatingFor(t, k)' \subseteq CreatingFor(t, k)
      BY <2>6 DEF AcknowledgeTransition, ResolveTransition, Return, CreatingFor, Creating,
                  TypeOK, Idle
    <3>2. call[c].id \in DOMAIN faults
      BY <2>6 DEF AcknowledgeTransition, ResolveTransition, TypeOK
    <3> QED
      BY <2>4, <2>6, <3>1, <3>2
      DEF AcknowledgeTransition, ResolveTransition, Transition, State
  <2>7. ASSUME NEW i \in DOMAIN faults, NEW to \in DirectTargets, DirectTransition(i, to)
        PROVE  Cardinality(OpenFor(t, k)') + Cardinality(CreatingFor(t, k)')
                 <= Cardinality(Callers)
    <3>1. CreatingFor(t, k)' \subseteq CreatingFor(t, k)
      BY <2>7 DEF DirectTransition, CreatingFor, Creating
    <3> QED
      BY <2>4, <2>7, <3>1, DirectTargetsAreStates DEF DirectTransition, Transition
  <2>8. CASE UNCHANGED vars
    <3>1. faults' = faults /\ CreatingFor(t, k)' \subseteq CreatingFor(t, k)
      BY <2>8 DEF vars, CreatingFor, Creating
    <3> QED
      BY <2>4, <3>1
  <2> QED
    BY <2>2, <2>3, <2>5, <2>6, <2>7, <2>8 DEF Next
<1> QED
  BY <1>1, <1>2, TypeInvariant, PTL DEF Spec

-----------------------------------------------------------------------------
(***************************************************************************)
(* One caller at a time: the two-step operations implement the ledger.     *)
(***************************************************************************)

Serial == DirectTargets = {} /\ Cardinality(Callers) = 1

LEMMA OneCaller ==
  ASSUME Serial
  PROVE  \E c : Callers = {c}
BY CallersFinite, FS_Singleton DEF Serial

\* With no second caller nothing moves between a read and the act it leads to.
THEOREM SerialReadsAreFresh ==
  ASSUME Serial
  PROVE  Spec => []ActsOnWhatItRead
<1>0. PICK only : Callers = {only}
  BY OneCaller
<1>1. Init => ActsOnWhatItRead
  BY DEF Init, ActsOnWhatItRead, Idle
<1>2. TypeOK /\ ActsOnWhatItRead /\ [Next]_vars => ActsOnWhatItRead'
  <2> SUFFICES ASSUME TypeOK, ActsOnWhatItRead, [Next]_vars PROVE ActsOnWhatItRead'
    OBVIOUS
  <2>1. ASSUME NEW t \in Turbines \cup {NoTurbine}, NEW k \in Codes, RaiseLookup(only, t, k)
        PROVE  ActsOnWhatItRead'
    BY <2>1, <1>0 DEF RaiseLookup, Begin, TypeOK, ActsOnWhatItRead, OpenFor
  <2>2. CASE call' = [call EXCEPT ![only] = Idle]
    BY <2>2, <1>0 DEF TypeOK, ActsOnWhatItRead, Idle
  <2>3. ASSUME NEW i \in DOMAIN faults, AcknowledgeGet(only, i)
        PROVE  ActsOnWhatItRead'
    BY <2>3, <1>0 DEF AcknowledgeGet, Begin, TypeOK, ActsOnWhatItRead
  <2>4. ASSUME NEW i \in DOMAIN faults, ResolveGet(only, i)
        PROVE  ActsOnWhatItRead'
    BY <2>4, <1>0 DEF ResolveGet, Begin, TypeOK, ActsOnWhatItRead
  <2>5. CASE UNCHANGED vars
    BY <2>5 DEF vars, ActsOnWhatItRead, OpenFor
  <2> QED
    BY <1>0, <2>1, <2>2, <2>3, <2>4, <2>5
    DEF Next, Serial, RaiseCreate, AcknowledgeTransition, ResolveTransition, Return
<1> QED
  BY <1>1, <1>2, TypeInvariant, PTL DEF Spec

\* Called one at a time, Raise, Acknowledge and Resolve do in one visible step
\* exactly what their comments promise.
THEOREM SerialServiceIsTheLedger ==
  ASSUME Serial
  PROVE  Spec => LedgerSpec
<1>1. Init => Ledger!Init
  BY DEF Init, Ledger!Init
<1>2. TypeOK /\ ActsOnWhatItRead /\ [Next]_vars => [Ledger!Next]_faults
  <2> SUFFICES ASSUME TypeOK, ActsOnWhatItRead, [Next]_vars, faults' # faults
               PROVE  Ledger!Next
    OBVIOUS
  <2>1. ASSUME NEW c \in Callers, RaiseCreate(c)
        PROVE  Ledger!Next
    <3>1. call[c].turbine \in Turbines /\ call[c].code \in Codes
      BY <2>1 DEF RaiseCreate, TypeOK, Call, Idle
    <3>2. OpenFor(call[c].turbine, call[c].code) = {}
      BY <2>1 DEF RaiseCreate, ActsOnWhatItRead
    <3>3. Ledger!OpenFor(call[c].turbine, call[c].code) = {}
      BY <3>2 DEF OpenFor, IsOpen, Same, TerminalState,
                  Ledger!OpenFor, Ledger!Same, Ledger!TerminalState
    <3> QED
      BY <2>1, <3>1, <3>3 DEF RaiseCreate, Ledger!Next, Ledger!Raise
  <2>2. ASSUME NEW c \in Callers, AcknowledgeTransition(c)
        PROVE  Ledger!Next
    <3>1. /\ call[c].id \in DOMAIN faults
          /\ faults[call[c].id].state # "normal"
          /\ faults' = [faults EXCEPT ![call[c].id].state = "maintenance"]
      BY <2>2 DEF AcknowledgeTransition, Transition, TypeOK, ActsOnWhatItRead
    <3>2. faults[call[c].id].state \in State
      <4>1. faults \in Seq(Fault)
        BY DEF TypeOK
      <4>2. faults[call[c].id] \in Fault
        BY <3>1, <4>1, LenProperties, ElementOfSeq
      <4> QED
        BY <4>2 DEF Fault
    <3> QED
      BY <3>1, <3>2 DEF State, Ledger!Next, Ledger!Acknowledge, Ledger!State
  <2>3. ASSUME NEW c \in Callers, ResolveTransition(c)
        PROVE  Ledger!Next
    <3>1. /\ call[c].id \in DOMAIN faults
          /\ CanTransition(faults[call[c].id].state, "normal")
          /\ faults' = [faults EXCEPT ![call[c].id].state = "normal"]
      BY <2>3 DEF ResolveTransition, Transition, TypeOK, ActsOnWhatItRead
    <3>2. faults \in Seq(Fault)
      BY DEF TypeOK
    <3>3. faults[call[c].id].state # "normal"
      <4> SUFFICES ASSUME faults[call[c].id].state = "normal" PROVE faults' = faults
        BY <3>1
      <4>1. faults[call[c].id] \in Fault
        BY <3>1, <3>2, LenProperties, ElementOfSeq
      <4>2. [faults[call[c].id] EXCEPT !.state = "normal"] = faults[call[c].id]
        BY <4>1 DEF Fault
      <4>3. faults' = [faults EXCEPT ![call[c].id] = faults[call[c].id]]
        BY <3>1, <4>2
      <4> QED
        BY <3>2, <4>3, LenProperties
    <3> QED
      BY <3>1, <3>3 DEF CanTransition, Allowed, Ledger!Next, Ledger!Resolve, Ledger!Allowed
  <2> QED
    BY <2>1, <2>2, <2>3 DEF Next, Serial, RaiseLookup, AcknowledgeGet, ResolveGet, Begin, vars
<1>3. Spec => []ActsOnWhatItRead
  BY SerialReadsAreFresh
<1> QED
  BY <1>1, <1>2, <1>3, TypeInvariant, PTL DEF Spec, LedgerSpec, Ledger!Spec

\* Raised one at a time, no turbine has two open faults of one code.
THEOREM SerialRaiseNeverDuplicates ==
  ASSUME Serial
  PROVE  Spec => []NoDuplicateOpen
<1>1. TypeOK /\ DuplicatesBounded => NoDuplicateOpen
  BY CountsAreFinite DEF DuplicatesBounded, NoDuplicateOpen, Serial
<1>2. Spec => []DuplicatesBounded
  BY DuplicatesAreBounded DEF Serial, NoDirectReopening
<1> QED
  BY <1>1, <1>2, TypeInvariant, PTL

-----------------------------------------------------------------------------
(***************************************************************************)
(* FaultFlow.                                                              *)
(***************************************************************************)

Ordering == {"acknowledge", "acknowledging", "announce"}

FlowType == {Ready}
            \cup [at : {"raise", "create"}, turbine : Turbines, code : Codes]
            \cup [at : {"schedule"}, fault : Nat]
            \cup [at : Ordering, fault : Nat, order : Nat]

\* What a caller carries between its calls of the services; the faults and
\* orders it is at work on exist.
Carries ==
  /\ flow \in [Callers -> FlowType]
  /\ orders \in Seq(Nat)
  /\ announced \subseteq DOMAIN orders
  /\ \A o \in DOMAIN orders : orders[o] \in DOMAIN faults
  /\ \A c \in Callers :
       /\ At(c, "schedule") => flow[c].fault \in DOMAIN faults
       /\ flow[c].at \in Ordering => /\ flow[c].order \in DOMAIN orders
                                     /\ flow[c].fault = orders[flow[c].order]

-----------------------------------------------------------------------------
(***************************************************************************)
(* The flow is a user of the fault service.                                *)
(***************************************************************************)

\* Each step of the flow is a step of the fault service or leaves it alone.
LEMMA ServiceStep ==
  ASSUME Carries, [FlowNext]_flowVars
  PROVE  [Next]_vars
<1>1. ASSUME NEW c \in Callers, PipelineRaise(c)
      PROVE  [Next]_vars
  <2>1. At(c, "raise") => flow[c].turbine \in Turbines /\ flow[c].code \in Codes
    BY DEF Carries, FlowType, Ready, At, Ordering
  <2> QED
    BY <1>1, <2>1 DEF PipelineRaise, Next, vars
<1>2. ASSUME NEW c \in Callers, PipelineCreate(c)
      PROVE  [Next]_vars
  BY <1>2 DEF PipelineCreate, Next
<1>3. ASSUME NEW c \in Callers, DispatchAckRead(c)
      PROVE  [Next]_vars
  <2>1. flow[c].fault \in DOMAIN faults
    BY <1>3 DEF Carries, DispatchAckRead, At, Ordering
  <2> QED
    BY <1>3, <2>1 DEF DispatchAckRead, Next, vars
<1>4. ASSUME NEW c \in Callers, DispatchAckWrite(c) \/ Operate(c)
      PROVE  [Next]_vars
  BY <1>4 DEF DispatchAckWrite, Operate, Next
<1>5. CASE UNCHANGED <<faults, call>>
  BY <1>5 DEF vars
<1> QED
  BY <1>1, <1>2, <1>3, <1>4, <1>5
  DEF FlowNext, flowVars, Evaluate, DispatchRead, DispatchSchedule, DispatchAnnounce,
      AckOrResolveAlarm

\* The store forgets no fault.
LEMMA FaultsKept ==
  ASSUME TypeOK, [Next]_vars
  PROVE  DOMAIN faults \subseteq DOMAIN faults'
<1>1. CASE \E f \in Fault : faults' = Append(faults, f)
  BY <1>1, CreateProperties DEF TypeOK
<1>2. CASE \E i \in DOMAIN faults, to \in {"normal", "maintenance"} \cup DirectTargets :
             faults' = [faults EXCEPT ![i].state = to]
  BY <1>2
<1> QED
  BY <1>1, <1>2, StepShape DEF Fault, State

\* A scheduled order is one more order.
LEMMA ScheduleProperties ==
  ASSUME NEW s \in Seq(Nat), NEW i \in Nat
  PROVE  /\ Append(s, i) \in Seq(Nat)
         /\ DOMAIN Append(s, i) = DOMAIN s \cup {Len(s) + 1}
         /\ Len(s) + 1 \in Nat /\ Len(s) + 1 \notin DOMAIN s
         /\ Append(s, i)[Len(s) + 1] = i
         /\ \A o \in DOMAIN s : Append(s, i)[o] = s[o]
<1>1. Len(s) \in Nat /\ DOMAIN s = 1..Len(s)
  BY LenProperties
<1>2. /\ Append(s, i) \in Seq(Nat)
      /\ Len(Append(s, i)) = Len(s) + 1
      /\ Append(s, i)[Len(s) + 1] = i
      /\ \A o \in 1..Len(s) : Append(s, i)[o] = s[o]
  BY AppendProperties
<1>3. DOMAIN Append(s, i) = 1..(Len(s) + 1)
  BY <1>2, LenProperties
<1> QED
  BY <1>1, <1>2, <1>3

LEMMA CarriesStep ==
  ASSUME TypeOK, Carries, [FlowNext]_flowVars
  PROVE  Carries'
<1>1. DOMAIN faults \subseteq DOMAIN faults'
  BY ServiceStep, FaultsKept
<1>2. DOMAIN faults \subseteq Nat
  BY LenProperties DEF TypeOK
<1>3. ASSUME UNCHANGED <<orders, announced, flow>>
      PROVE  Carries'
  BY <1>1, <1>3 DEF Carries, At
<1>4. ASSUME NEW c \in Callers, UNCHANGED <<orders, announced>>,
             NEW next, Goto(c, next),
             next \in FlowType,
             next.at = "schedule" => next.fault \in DOMAIN faults,
             next.at \in Ordering => /\ next.order \in DOMAIN orders
                                     /\ next.fault = orders[next.order]
      PROVE  Carries'
  BY <1>1, <1>4 DEF Carries, At, Goto
<1>5. Ready \in FlowType /\ Ready.at = "ready"
  BY DEF FlowType, Ready
<1>6. ASSUME NEW c \in Callers, NEW t \in Turbines, NEW r \in Rules, Evaluate(c, t, r)
      PROVE  Carries'
  <2> DEFINE next == AfterDispatch(t, r)
  <2>1. next \in FlowType /\ next.at \in {"ready", "raise"}
    BY RuleCodes DEF AfterDispatch, FlowType, Ready, Critical
  <2> HIDE DEF next
  <2> QED
    BY <1>4, <1>6, <2>1 DEF Evaluate, Ordering, next
<1>7. ASSUME NEW c \in Callers, PipelineRaise(c)
      PROVE  Carries'
  <2>1. CASE Goto(c, Ready)
    BY <1>4, <1>5, <1>7, <2>1 DEF PipelineRaise, Ordering
  <2>2. CASE Goto(c, [flow[c] EXCEPT !.at = "create"])
    <3> DEFINE next == [flow[c] EXCEPT !.at = "create"]
    <3>1. next \in FlowType /\ next.at = "create"
      BY <1>7 DEF PipelineRaise, At, Carries, FlowType, Ready, Ordering
    <3> HIDE DEF next
    <3> QED
      BY <1>4, <1>7, <2>2, <3>1 DEF PipelineRaise, Ordering, next
  <2> QED
    BY <1>7, <2>1, <2>2 DEF PipelineRaise
<1>8. ASSUME NEW c \in Callers, PipelineCreate(c)
      PROVE  Carries'
  BY <1>4, <1>5, <1>8 DEF PipelineCreate, Ordering
<1>9. ASSUME NEW c \in Callers, NEW i \in DOMAIN faults, DispatchRead(c, i)
      PROVE  Carries'
  <2> DEFINE next == [at |-> "schedule", fault |-> i]
  <2>1. next \in FlowType /\ next.at = "schedule" /\ next.fault = i
    BY <1>2 DEF FlowType
  <2> HIDE DEF next
  <2> QED
    BY <1>4, <1>9, <2>1 DEF DispatchRead, Ordering, next
<1>10. ASSUME NEW c \in Callers, DispatchSchedule(c)
       PROVE  Carries'
  <2> DEFINE n == Len(orders) + 1
             next == [at |-> "acknowledge", fault |-> flow[c].fault, order |-> n]
  <2>1. flow[c].fault \in DOMAIN faults /\ flow[c].fault \in Nat
    BY <1>2, <1>10 DEF DispatchSchedule, Carries, At
  <2>2. /\ orders' \in Seq(Nat)
        /\ DOMAIN orders' = DOMAIN orders \cup {n} /\ n \in Nat /\ n \notin DOMAIN orders
        /\ orders'[n] = flow[c].fault
        /\ \A o \in DOMAIN orders : orders'[o] = orders[o]
    BY <1>10, <2>1, ScheduleProperties DEF DispatchSchedule, Carries
  <2>3. next \in FlowType /\ next.at = "acknowledge" /\ next.order = n
        /\ next.fault = flow[c].fault
    BY <2>1, <2>2 DEF FlowType, Ordering
  <2>4. flow' = [flow EXCEPT ![c] = next] /\ announced' = announced
    BY <1>10 DEF DispatchSchedule, Goto
  <2> HIDE DEF next, n
  <2> QED
    BY <1>1, <2>1, <2>2, <2>3, <2>4 DEF Carries, At
<1>11. ASSUME NEW c \in Callers, DispatchAckRead(c) \/ DispatchAckWrite(c)
       PROVE  Carries'
  <2>1. CASE Goto(c, Ready)
    BY <1>4, <1>5, <1>11, <2>1 DEF DispatchAckRead, DispatchAckWrite, Ordering
  <2>2. ASSUME NEW where \in Ordering, Goto(c, [flow[c] EXCEPT !.at = where])
        PROVE  Carries'
    <3> DEFINE next == [flow[c] EXCEPT !.at = where]
    <3>1. flow[c] \in [at : Ordering, fault : Nat, order : Nat]
      <4>1. flow[c].at = "acknowledge" \/ flow[c].at = "acknowledging"
        BY <1>11 DEF DispatchAckRead, DispatchAckWrite, At
      <4>2. flow[c] \in FlowType
        BY DEF Carries
      <4> QED
        BY <4>1, <4>2 DEF FlowType, Ready
    <3>2. /\ next \in FlowType /\ next.at = where
          /\ next.order = flow[c].order /\ next.fault = flow[c].fault
      BY <3>1 DEF FlowType
    <3>3. flow[c].order \in DOMAIN orders /\ flow[c].fault = orders[flow[c].order]
      BY <3>1 DEF Carries
    <3> HIDE DEF next
    <3> QED
      BY <1>4, <1>11, <2>2, <3>2, <3>3 DEF DispatchAckRead, DispatchAckWrite, Ordering, next
  <2> QED
    BY <1>11, <2>1, <2>2 DEF DispatchAckRead, DispatchAckWrite, Ordering
<1>12. ASSUME NEW c \in Callers, DispatchAnnounce(c)
       PROVE  Carries'
  <2>1. flow[c].order \in DOMAIN orders
    BY <1>12 DEF DispatchAnnounce, Carries, At, Ordering
  <2>2. flow' = [flow EXCEPT ![c] = Ready] /\ orders' = orders
        /\ announced' = announced \cup {flow[c].order}
    BY <1>12 DEF DispatchAnnounce, Goto
  <2> QED
    BY <1>1, <1>5, <2>1, <2>2 DEF Carries, At, Ordering
<1> QED
  BY <1>3, <1>6, <1>7, <1>8, <1>9, <1>10, <1>11, <1>12
  DEF FlowNext, flowVars, Operate, AckOrResolveAlarm

LEMMA FlowInvariant == FlowSpec => [](TypeOK /\ Carries)
<1>1. FlowInit => TypeOK /\ Carries
  BY EmptySeq DEF FlowInit, Init, TypeOK, Idle, Call, Carries, FlowType, Ready, At, Ordering
<1>2. TypeOK /\ Carries /\ [FlowNext]_flowVars => TypeOK' /\ Carries'
  BY ServiceStep, TypeStep, CarriesStep
<1> QED
  BY <1>1, <1>2, PTL DEF FlowSpec

\* Between them the pipeline, the order flow and the operators use the fault
\* service only through its operations: what is proved of FaultService holds
\* of the faults they share.
THEOREM ImplementsService == FlowSpec => ServiceSpec
<1>1. FlowInit => Init
  BY DEF FlowInit
<1>2. Carries /\ [FlowNext]_flowVars => [Next]_vars
  BY ServiceStep
<1> QED
  BY <1>1, <1>2, FlowInvariant, PTL DEF FlowSpec, ServiceSpec, Spec

-----------------------------------------------------------------------------
(***************************************************************************)
(* What an announced order says of its fault.                              *)
(***************************************************************************)

\* A caller about to write an acknowledge writes it to the fault of its order,
\* and once it has, or found the fault resolved, that fault stays closed.
Acknowledged ==
  /\ \A c \in Callers :
       /\ At(c, "acknowledging") => /\ c \in Dispatchers
                                    /\ call[c].op = "acknowledge"
                                    /\ call[c].id = flow[c].fault
       /\ At(c, "acknowledge") => c \in Dispatchers
       /\ At(c, "schedule") => c \in Dispatchers
       /\ At(c, "announce") => ~IsOpen(faults[flow[c].fault])
  /\ AnnouncedIsAcknowledged

LEMMA AcknowledgedStep ==
  ASSUME NoDirectReopening, TypeOK, Carries, Acknowledged, [FlowNext]_flowVars
  PROVE  Acknowledged'
<1>1. /\ \A o \in announced : ~IsOpen(faults'[orders[o]])
      /\ \A d \in Callers : At(d, "announce") => ~IsOpen(faults'[flow[d].fault])
  <2>1. \A i \in DOMAIN faults : ~IsOpen(faults[i]) => ~IsOpen(faults'[i])
    BY ServiceStep, ClosedStep
  <2>2. \A o \in announced : orders[o] \in DOMAIN faults
    BY DEF Carries
  <2>3. \A d \in Callers : At(d, "announce") => flow[d].fault \in DOMAIN faults
    BY DEF Carries, At, Ordering
  <2> QED
    BY <2>1, <2>2, <2>3 DEF Acknowledged, AnnouncedIsAcknowledged
<1>2. \A o \in announced : o \in DOMAIN orders
  BY DEF Carries
<1>3. DOMAIN flow = Callers /\ DOMAIN call = Callers
  BY DEF Carries, TypeOK
<1>4. ASSUME UNCHANGED <<orders, announced, flow>>,
             \A d \in Dispatchers : call'[d] = call[d]
      PROVE  Acknowledged'
  BY <1>1, <1>4 DEF Acknowledged, AnnouncedIsAcknowledged, At, IsOpen
<1>5. ASSUME NEW c \in Callers, NEW next, Goto(c, next), UNCHANGED announced,
             \A o \in DOMAIN orders : orders'[o] = orders[o],
             \A d \in Callers \ {c} : call'[d] = call[d],
             next.at \in {"schedule", "acknowledge", "acknowledging"} => c \in Dispatchers,
             next.at = "acknowledging" => /\ call'[c].op = "acknowledge"
                                          /\ call'[c].id = next.fault,
             next.at = "announce" => ~IsOpen(faults'[next.fault])
      PROVE  Acknowledged'
  <2>1. flow' = [flow EXCEPT ![c] = next]
    BY <1>5 DEF Goto
  <2>2. flow'[c] = next /\ \A d \in Callers \ {c} : flow'[d] = flow[d]
    BY <1>3, <2>1
  <2>3. AnnouncedIsAcknowledged'
    BY <1>1, <1>2, <1>5 DEF AnnouncedIsAcknowledged, IsOpen
  <2> QED
    BY <1>1, <1>5, <2>2, <2>3 DEF Acknowledged, At, IsOpen
<1>6. Ready.at = "ready"
  BY DEF Ready
<1>7. ASSUME NEW c \in Callers, NEW t \in Turbines, NEW r \in Rules, Evaluate(c, t, r)
      PROVE  Acknowledged'
  <2>1. AfterDispatch(t, r).at \in {"ready", "raise"}
    BY DEF AfterDispatch, Ready
  <2> QED
    BY <1>5, <1>7, <2>1 DEF Evaluate
<1>8. ASSUME NEW c \in Callers, PipelineRaise(c)
      PROVE  Acknowledged'
  <2>1. CASE Goto(c, Ready) /\ UNCHANGED call
    BY <1>5, <1>6, <1>8, <2>1 DEF PipelineRaise
  <2>2. CASE Goto(c, [flow[c] EXCEPT !.at = "create"])
             /\ RaiseLookup(c, flow[c].turbine, flow[c].code)
    <3> DEFINE next == [flow[c] EXCEPT !.at = "create"]
    <3>1. next.at = "create"
      BY <1>8 DEF PipelineRaise, At, Carries, FlowType, Ready, Ordering
    <3>2. \A d \in Callers \ {c} : call'[d] = call[d]
      BY <1>3, <2>2 DEF RaiseLookup, Begin
    <3> HIDE DEF next
    <3> QED
      BY <1>5, <1>8, <2>2, <3>1, <3>2 DEF PipelineRaise, next
  <2> QED
    BY <1>8, <2>1, <2>2 DEF PipelineRaise
<1>9. ASSUME NEW c \in Callers, PipelineCreate(c)
      PROVE  Acknowledged'
  <2>1. \A d \in Callers \ {c} : call'[d] = call[d]
    BY <1>3, <1>9 DEF PipelineCreate, RaiseCreate, Return
  <2> QED
    BY <1>5, <1>6, <1>9, <2>1 DEF PipelineCreate
<1>10. ASSUME NEW c \in Callers, NEW i \in DOMAIN faults, DispatchRead(c, i)
       PROVE  Acknowledged'
  BY <1>5, <1>10 DEF DispatchRead
<1>11. ASSUME NEW c \in Callers, DispatchSchedule(c)
       PROVE  Acknowledged'
  <2>1. flow[c].fault \in Nat
    <3>1. flow[c].fault \in DOMAIN faults
      BY <1>11 DEF DispatchSchedule, Carries, At
    <3> QED
      BY <3>1, LenProperties DEF TypeOK
  <2>2. \A o \in DOMAIN orders : orders'[o] = orders[o]
    BY <1>11, <2>1, ScheduleProperties DEF DispatchSchedule, Carries
  <2>3. c \in Dispatchers
    BY <1>11 DEF DispatchSchedule, Acknowledged
  <2> QED
    BY <1>5, <1>11, <2>2, <2>3 DEF DispatchSchedule
<1>12. ASSUME NEW c \in Callers, DispatchAckRead(c)
       PROVE  Acknowledged'
  <2>0. c \in Dispatchers /\ DOMAIN flow[c] = {"at", "fault", "order"}
    <3>1. flow[c] \in FlowType /\ flow[c].at = "acknowledge"
      BY <1>12 DEF DispatchAckRead, At, Carries
    <3>2. flow[c] \in [at : Ordering, fault : Nat, order : Nat]
      BY <3>1 DEF FlowType, Ready
    <3> QED
      BY <1>12, <3>2 DEF DispatchAckRead, Acknowledged
  <2>1. CASE /\ faults[flow[c].fault].state = "normal"
             /\ Goto(c, [flow[c] EXCEPT !.at = "announce"])
             /\ UNCHANGED <<faults, call>>
    <3> DEFINE next == [flow[c] EXCEPT !.at = "announce"]
    <3>1. next.at = "announce" /\ next.fault = flow[c].fault
      BY <2>0
    <3>2. ~IsOpen(faults'[flow[c].fault])
      BY <2>1 DEF IsOpen, TerminalState
    <3> HIDE DEF next
    <3> QED
      BY <1>5, <1>12, <2>1, <3>1, <3>2 DEF DispatchAckRead, next
  <2>2. CASE /\ AcknowledgeGet(c, flow[c].fault)
             /\ Goto(c, [flow[c] EXCEPT !.at = "acknowledging"])
    <3> DEFINE next == [flow[c] EXCEPT !.at = "acknowledging"]
    <3>1. next.at = "acknowledging" /\ next.fault = flow[c].fault
      BY <2>0
    <3>2. /\ call'[c] = [op |-> "acknowledge", id |-> flow[c].fault]
          /\ \A d \in Callers \ {c} : call'[d] = call[d]
      BY <1>3, <2>2 DEF AcknowledgeGet, Begin
    <3> HIDE DEF next
    <3> QED
      BY <1>5, <1>12, <2>0, <2>2, <3>1, <3>2 DEF DispatchAckRead, next
  <2> QED
    BY <1>12, <2>1, <2>2 DEF DispatchAckRead
<1>13. ASSUME NEW c \in Callers, DispatchAckWrite(c)
       PROVE  Acknowledged'
  <2>0. /\ flow[c].fault \in DOMAIN faults
        /\ call[c].id = flow[c].fault
        /\ DOMAIN flow[c] = {"at", "fault", "order"}
    <3>1. flow[c] \in FlowType /\ flow[c].at = "acknowledging"
      BY <1>13 DEF DispatchAckWrite, At, Carries
    <3>2. flow[c] \in [at : Ordering, fault : Nat, order : Nat]
      BY <3>1 DEF FlowType, Ready
    <3> QED
      BY <1>13, <3>1, <3>2 DEF DispatchAckWrite, Acknowledged, Carries, Ordering
  <2>1. \A d \in Callers \ {c} : call'[d] = call[d]
    BY <1>3, <1>13 DEF DispatchAckWrite, AcknowledgeTransition, Return
  <2>2. CASE CanTransition(faults[flow[c].fault].state, "maintenance")
             /\ Goto(c, [flow[c] EXCEPT !.at = "announce"])
    <3> DEFINE next == [flow[c] EXCEPT !.at = "announce"]
    <3>1. next.at = "announce" /\ next.fault = flow[c].fault
      BY <2>0
    <3>2. faults' = [faults EXCEPT ![flow[c].fault].state = "maintenance"]
      BY <1>13, <2>0, <2>2 DEF DispatchAckWrite, AcknowledgeTransition, Transition
    <3>3. ~IsOpen(faults'[flow[c].fault])
      BY <2>0, <3>2, MoveProperties DEF TypeOK, State, IsOpen, TerminalState
    <3> HIDE DEF next
    <3> QED
      BY <1>5, <1>13, <2>1, <2>2, <3>1, <3>3 DEF DispatchAckWrite, next
  <2>3. CASE Goto(c, Ready)
    BY <1>5, <1>6, <1>13, <2>1, <2>3 DEF DispatchAckWrite
  <2> QED
    BY <1>13, <2>2, <2>3 DEF DispatchAckWrite
<1>14. ASSUME NEW c \in Callers, DispatchAnnounce(c)
       PROVE  Acknowledged'
  <2>1. orders[flow[c].order] = flow[c].fault /\ At(c, "announce")
    BY <1>14 DEF DispatchAnnounce, Carries, At, Ordering
  <2>2. /\ flow' = [flow EXCEPT ![c] = Ready] /\ announced' = announced \cup {flow[c].order}
        /\ UNCHANGED <<faults, call, orders>>
    BY <1>14 DEF DispatchAnnounce, Goto
  <2>3. AnnouncedIsAcknowledged'
    BY <1>1, <2>1, <2>2 DEF AnnouncedIsAcknowledged, IsOpen
  <2>4. flow'[c] = Ready /\ \A d \in Callers \ {c} : flow'[d] = flow[d]
    BY <1>3, <2>2
  <2> QED
    BY <1>1, <1>6, <2>2, <2>3, <2>4 DEF Acknowledged, At, IsOpen
<1>15. ASSUME NEW c \in Callers, Operate(c)
       PROVE  Acknowledged'
  <2>1. c \notin Dispatchers /\ Dispatchers \subseteq Callers
    BY <1>15, FlowCallers DEF Operate
  <2>2. \A d \in Callers \ {c} : call'[d] = call[d]
    BY <1>3, <1>15 DEF Operate, AcknowledgeGet, ResolveGet, AcknowledgeTransition,
                       ResolveTransition, Begin, Return
  <2> QED
    BY <1>4, <1>15, <2>1, <2>2 DEF Operate
<1>16. ASSUME NEW i \in DOMAIN alarms, AckOrResolveAlarm(i)
       PROVE  Acknowledged'
  BY <1>4, <1>16 DEF AckOrResolveAlarm
<1>17. CASE UNCHANGED flowVars
  BY <1>4, <1>17 DEF flowVars
<1> QED
  BY <1>7, <1>8, <1>9, <1>10, <1>11, <1>12, <1>13, <1>14, <1>15, <1>16, <1>17 DEF FlowNext

\* Where no other code moves faults to warning or fault, an announced order is
\* for a fault that is acknowledged or resolved, then and ever after.
THEOREM AnnouncedOrdersAreAcknowledged ==
  ASSUME NoDirectReopening
  PROVE  FlowSpec => []AnnouncedIsAcknowledged
<1>1. FlowInit => Acknowledged
  BY DEF FlowInit, Acknowledged, AnnouncedIsAcknowledged, At, Ready
<1>2. TypeOK /\ Carries /\ Acknowledged /\ [FlowNext]_flowVars => Acknowledged'
  BY AcknowledgedStep
<1>3. Acknowledged => AnnouncedIsAcknowledged
  BY DEF Acknowledged
<1> QED
  BY <1>1, <1>2, <1>3, FlowInvariant, PTL DEF FlowSpec

-----------------------------------------------------------------------------
(***************************************************************************)
(* Faults and alarms account for each other.                               *)
(***************************************************************************)

\* Alarms asking for a fault (A), pipelines raising one (R) and faults made (M):
\* a new alarm comes with its pipeline, a pipeline gives up where there is a
\* fault, or turns into one.
LEMMA BalanceKept ==
  ASSUME NEW M, NEW R, NEW A, IsFiniteSet(M), IsFiniteSet(R), IsFiniteSet(A),
         Cardinality(M) + Cardinality(R) <= Cardinality(A), A # {} => M \cup R # {},
         NEW M2, NEW R2, NEW A2,
         \/ M2 = M /\ R2 = R /\ A2 = A
         \/ /\ M2 = M
            /\ \E c : c \notin R /\ R2 = R \cup {c}
            /\ \E n : n \notin A /\ A2 = A \cup {n}
         \/ M2 = M /\ M # {} /\ A2 = A /\ \E c \in R : R2 = R \ {c}
         \/ /\ A2 = A
            /\ \E c \in R : R2 = R \ {c}
            /\ \E n : n \notin M /\ M2 = M \cup {n}
  PROVE  /\ Cardinality(M2) + Cardinality(R2) <= Cardinality(A2)
         /\ A2 # {} => M2 \cup R2 # {}
<1>1. /\ Cardinality(M) \in Nat /\ Cardinality(R) \in Nat /\ Cardinality(A) \in Nat
  BY FS_CardinalityType
<1>2. \A c : c \notin R => Cardinality(R \cup {c}) = Cardinality(R) + 1
  BY FS_AddElement
<1>3. \A n : n \notin A => Cardinality(A \cup {n}) = Cardinality(A) + 1
  BY FS_AddElement
<1>4. \A n : n \notin M => Cardinality(M \cup {n}) = Cardinality(M) + 1
  BY FS_AddElement
<1>5. \A c \in R : Cardinality(R \ {c}) = Cardinality(R) - 1
  BY FS_RemoveElement
<1>6. A2 # {} => M2 \cup R2 # {}
  OBVIOUS
<1>7. Cardinality(M2) + Cardinality(R2) <= Cardinality(A2)
  <2>1. CASE M2 = M /\ R2 = R /\ A2 = A
    BY <2>1
  <2>2. CASE /\ M2 = M
             /\ \E c : c \notin R /\ R2 = R \cup {c}
             /\ \E n : n \notin A /\ A2 = A \cup {n}
    <3>1. Cardinality(R2) = Cardinality(R) + 1 /\ Cardinality(A2) = Cardinality(A) + 1
      BY <1>2, <1>3, <2>2
    <3> QED
      BY <1>1, <2>2, <3>1
  <2>3. CASE M2 = M /\ A2 = A /\ \E c \in R : R2 = R \ {c}
    <3>1. Cardinality(R2) = Cardinality(R) - 1
      BY <1>5, <2>3
    <3> QED
      BY <1>1, <2>3, <3>1
  <2>4. CASE /\ A2 = A
             /\ \E c \in R : R2 = R \ {c}
             /\ \E n : n \notin M /\ M2 = M \cup {n}
    <3>1. Cardinality(R2) = Cardinality(R) - 1 /\ Cardinality(M2) = Cardinality(M) + 1
      BY <1>4, <1>5, <2>4
    <3> QED
      BY <1>1, <2>4, <3>1
  <2> QED
    BY <2>1, <2>2, <2>3, <2>4
<1> QED
  BY <1>6, <1>7

RaisePlaces == {"raise", "create"}

\* Only pipelines raise, and the call of a pipeline that is about to create is
\* the one its flow is at; the store holds well-formed alarms.
Raises ==
  /\ alarms \in Seq(Alarms!Alarm)
  /\ \A c \in Callers :
       /\ flow[c].at \in RaisePlaces => c \in Pipelines
       /\ At(c, "create") => /\ call[c].op = "create"
                             /\ call[c].turbine = flow[c].turbine
                             /\ call[c].code = flow[c].code

\* A step of one flow adds it to those that raise a fault, or takes it away.
LEMMA RaisingMoves ==
  ASSUME Carries, NEW c \in Callers, NEW next, Goto(c, next), NEW t, NEW k
  PROVE  RaisingFor(t, k)' = IF next.at \in RaisePlaces /\ Same(next, t, k)
                               THEN RaisingFor(t, k) \cup {c}
                               ELSE RaisingFor(t, k) \ {c}
<1>1. \A d \in Callers : flow'[d] = IF d = c THEN next ELSE flow[d]
  BY DEF Carries, Goto
<1>2. /\ RaisingFor(t, k) = {d \in Callers : flow[d].at \in RaisePlaces /\ Same(flow[d], t, k)}
      /\ RaisingFor(t, k)' = {d \in Callers : (flow'[d]).at \in RaisePlaces /\ Same(flow'[d], t, k)}
  BY DEF RaisingFor, RaisePlaces, Same
<1> QED
  BY <1>1, <1>2

\* A transition neither makes nor renames a fault.
LEMMA TransitionKeepsMade ==
  ASSUME TypeOK, NEW i \in DOMAIN faults, NEW to \in State, Transition(i, to), NEW t, NEW k
  PROVE  MadeFor(t, k)' = MadeFor(t, k)
<1>1. CASE faults' = faults
  BY <1>1 DEF MadeFor
<1>2. CASE faults' = [faults EXCEPT ![i].state = to]
  <2>1. /\ DOMAIN faults' = DOMAIN faults
        /\ Same(faults'[i], faults[i].turbine, faults[i].code)
        /\ \A j \in DOMAIN faults \ {i} : faults'[j] = faults[j]
    BY <1>2, MoveProperties DEF TypeOK
  <2> QED
    BY <2>1 DEF MadeFor, Same
<1> QED
  BY <1>1, <1>2 DEF Transition

\* A dispatched alarm asks for the fault of its rule, if that is critical.
LEMMA DispatchAsks ==
  ASSUME Raises, NEW t \in Turbines, NEW r \in Rules, Alarms!Dispatch(t, r)
  PROVE  /\ alarms' \in Seq(Alarms!Alarm)
         /\ Len(alarms) + 1 \notin DOMAIN alarms
         /\ \A u, k : AlarmsFor(u, k)' = IF u = t /\ r \in Critical /\ CodeOf[r] = k
                                           THEN AlarmsFor(u, k) \cup {Len(alarms) + 1}
                                           ELSE AlarmsFor(u, k)
<1> DEFINE new == [turbine |-> t, rule |-> r, status |-> "open"]
<1>1. alarms' = Append(alarms, new) /\ alarms \in Seq(Alarms!Alarm)
  BY DEF Alarms!Dispatch, Alarms!NewAlarm, Raises
<1>2. new \in Alarms!Alarm /\ new.turbine = t /\ new.rule = r
  BY DEF Alarms!Alarm, Alarms!Status
<1> HIDE DEF new
<1>3. PICK n : n = Len(alarms) + 1
  OBVIOUS
<1>4. Len(alarms) \in Nat /\ DOMAIN alarms = 1..Len(alarms)
  BY <1>1, LenProperties
<1>5. /\ alarms' \in Seq(Alarms!Alarm)
      /\ Len(alarms') = n
      /\ alarms'[n] = new
      /\ \A j \in 1..Len(alarms) : alarms'[j] = alarms[j]
  BY <1>1, <1>2, <1>3, AppendProperties
<1>6. DOMAIN alarms' = DOMAIN alarms \cup {n} /\ n \notin DOMAIN alarms
  <2>1. DOMAIN alarms' = 1..n
    BY <1>5, LenProperties
  <2> QED
    BY <1>3, <1>4, <2>1
<1>7. ASSUME NEW u, NEW k
      PROVE  AlarmsFor(u, k)' = IF u = t /\ r \in Critical /\ CodeOf[r] = k
                                  THEN AlarmsFor(u, k) \cup {n}
                                  ELSE AlarmsFor(u, k)
  BY <1>2, <1>4, <1>5, <1>6 DEF AlarmsFor
<1> QED
  BY <1>3, <1>5, <1>6, <1>7

\* Acknowledging or resolving an alarm leaves what it asks for alone.
LEMMA StatusKeepsAsking ==
  ASSUME Raises, NEW i \in DOMAIN alarms, AckOrResolveAlarm(i)
  PROVE  /\ alarms' \in Seq(Alarms!Alarm)
         /\ \A u, k : AlarmsFor(u, k)' = AlarmsFor(u, k)
<1>1. PICK st \in Alarms!Status : alarms' = [alarms EXCEPT ![i].status = st]
  BY DEF AckOrResolveAlarm, Alarms!Ack, Alarms!Resolve, Alarms!SetStatus, Alarms!Status
<1> DEFINE new == [alarms[i] EXCEPT !.status = st]
<1>2. alarms \in Seq(Alarms!Alarm) /\ i \in 1..Len(alarms) /\ alarms[i] \in Alarms!Alarm
  BY ElementOfSeq DEF Raises
<1>3. /\ new \in Alarms!Alarm
      /\ new.turbine = alarms[i].turbine /\ new.rule = alarms[i].rule
  BY <1>2 DEF Alarms!Alarm
<1>4. alarms' = [alarms EXCEPT ![i] = new]
  BY <1>1
<1> HIDE DEF new
<1>5. alarms' \in Seq(Alarms!Alarm)
  BY <1>2, <1>3, <1>4, ExceptSeq
<1>6. \A u, k : AlarmsFor(u, k)' = AlarmsFor(u, k)
  BY <1>3, <1>4 DEF AlarmsFor
<1> QED
  BY <1>5, <1>6

LEMMA RaisesStep ==
  ASSUME TypeOK, Carries, Raises, [FlowNext]_flowVars
  PROVE  Raises'
<1> DEFINE CallMatches(c) == /\ call[c].op = "create"
                             /\ call[c].turbine = flow[c].turbine
                             /\ call[c].code = flow[c].code
<1>1. DOMAIN flow = Callers /\ DOMAIN call = Callers
  BY DEF Carries, TypeOK
<1>2. ASSUME NEW c \in Callers, NEW next, Goto(c, next), alarms' \in Seq(Alarms!Alarm),
             \A d \in Callers \ {c} : call'[d] = call[d],
             next.at \in RaisePlaces => c \in Pipelines,
             next.at = "create" => /\ call'[c].op = "create"
                                   /\ call'[c].turbine = next.turbine
                                   /\ call'[c].code = next.code
      PROVE  Raises'
  <2>1. flow'[c] = next /\ \A d \in Callers \ {c} : flow'[d] = flow[d]
    BY <1>1, <1>2 DEF Goto
  <2> QED
    BY <1>2, <2>1 DEF Raises, At
<1>3. Ready.at \notin RaisePlaces /\ alarms \in Seq(Alarms!Alarm)
  BY DEF Ready, RaisePlaces, Raises
<1>4. "create" \in RaisePlaces
  BY DEF RaisePlaces
<1>5. ASSUME NEW c \in Callers, NEW t \in Turbines, NEW r \in Rules, Evaluate(c, t, r)
      PROVE  Raises'
  <2>1. AfterDispatch(t, r).at \in {"ready", "raise"}
    BY DEF AfterDispatch, Ready
  <2> QED
    BY <1>2, <1>5, <2>1, DispatchAsks DEF Evaluate
<1>6. ASSUME NEW c \in Callers, PipelineRaise(c)
      PROVE  Raises'
  <2>1. CASE Goto(c, Ready) /\ UNCHANGED call
    BY <1>2, <1>3, <1>4, <1>6, <2>1 DEF PipelineRaise
  <2>2. CASE Goto(c, [flow[c] EXCEPT !.at = "create"])
             /\ RaiseLookup(c, flow[c].turbine, flow[c].code)
    <3> DEFINE next == [flow[c] EXCEPT !.at = "create"]
               new == [op |-> "create", turbine |-> flow[c].turbine, code |-> flow[c].code]
    <3>1. next.at = "create" /\ next.turbine = flow[c].turbine /\ next.code = flow[c].code
      BY <1>6 DEF PipelineRaise, At, Carries, FlowType, Ready, Ordering
    <3>2. call' = [call EXCEPT ![c] = new]
      BY <2>2 DEF RaiseLookup, Begin
    <3>3. new.op = "create" /\ new.turbine = flow[c].turbine /\ new.code = flow[c].code
      OBVIOUS
    <3>4. c \in Pipelines
      BY <1>6 DEF PipelineRaise, At, Raises, RaisePlaces
    <3> HIDE DEF next, new
    <3>5. Goto(c, next)
      BY <2>2 DEF next
    <3>6. alarms' = alarms
      BY <1>6 DEF PipelineRaise
    <3> QED
      BY <1>1, <1>2, <1>3, <3>1, <3>2, <3>3, <3>4, <3>5, <3>6
  <2> QED
    BY <1>6, <2>1, <2>2 DEF PipelineRaise
<1>7. ASSUME NEW c \in Callers, PipelineCreate(c)
      PROVE  Raises'
  <2>1. \A d \in Callers \ {c} : call'[d] = call[d]
    BY <1>1, <1>7 DEF PipelineCreate, RaiseCreate, Return
  <2> QED
    BY <1>2, <1>3, <1>4, <1>7, <2>1 DEF PipelineCreate
<1>8. ASSUME NEW c \in Callers, NEW i \in DOMAIN faults, DispatchRead(c, i)
      PROVE  Raises'
  BY <1>2, <1>3, <1>8 DEF DispatchRead, RaisePlaces
<1>9. ASSUME NEW c \in Callers, DispatchSchedule(c)
      PROVE  Raises'
  BY <1>2, <1>3, <1>9 DEF DispatchSchedule, RaisePlaces
<1>10. ASSUME NEW c \in Callers, DispatchAckRead(c) \/ DispatchAckWrite(c)
       PROVE  Raises'
  <2>1. PICK next : Goto(c, next) /\ next.at \notin RaisePlaces
    <3>1. flow[c] \in FlowType /\ flow[c].at \in Ordering
      BY <1>10 DEF DispatchAckRead, DispatchAckWrite, At, Carries, Ordering
    <3>2. flow[c] \in [at : Ordering, fault : Nat, order : Nat]
      BY <3>1 DEF FlowType, Ready, Ordering
    <3>3. \A where : [flow[c] EXCEPT !.at = where].at = where
      BY <3>2
    <3> QED
      BY <1>3, <1>10, <3>3 DEF DispatchAckRead, DispatchAckWrite, RaisePlaces
  <2>2. \A d \in Callers \ {c} : call'[d] = call[d]
    BY <1>1, <1>10 DEF DispatchAckRead, DispatchAckWrite, AcknowledgeGet, Begin,
                       AcknowledgeTransition, Return
  <2> QED
    BY <1>2, <1>3, <1>4, <1>10, <2>1, <2>2 DEF DispatchAckRead, DispatchAckWrite
<1>11. ASSUME NEW c \in Callers, DispatchAnnounce(c)
       PROVE  Raises'
  BY <1>2, <1>3, <1>4, <1>11 DEF DispatchAnnounce
<1>12. ASSUME NEW c \in Callers, Operate(c)
       PROVE  Raises'
  <2>1. ~At(c, "create")
    BY <1>12, FlowCallers DEF Operate, Raises, At, RaisePlaces
  <2>2. \A d \in Callers \ {c} : call'[d] = call[d]
    BY <1>1, <1>12 DEF Operate, AcknowledgeGet, ResolveGet, AcknowledgeTransition,
                       ResolveTransition, Begin, Return
  <2>3. UNCHANGED <<alarms, flow>>
    BY <1>12 DEF Operate
  <2> QED
    BY <2>1, <2>2, <2>3 DEF Raises, At
<1>13. ASSUME NEW i \in DOMAIN alarms, AckOrResolveAlarm(i)
       PROVE  Raises'
  <2>1. UNCHANGED <<call, flow>> /\ alarms' \in Seq(Alarms!Alarm)
    BY <1>13, StatusKeepsAsking DEF AckOrResolveAlarm
  <2> QED
    BY <2>1 DEF Raises, At
<1>14. CASE UNCHANGED flowVars
  BY <1>14 DEF flowVars, Raises, At
<1> QED
  BY <1>5, <1>6, <1>7, <1>8, <1>9, <1>10, <1>11, <1>12, <1>13, <1>14 DEF FlowNext

LEMMA FlowCountsAreFinite ==
  ASSUME TypeOK, Raises, NEW t, NEW k
  PROVE  IsFiniteSet(MadeFor(t, k)) /\ IsFiniteSet(RaisingFor(t, k)) /\ IsFiniteSet(AlarmsFor(t, k))
<1>1. DOMAIN faults = 1..Len(faults) /\ Len(faults) \in Nat
  BY LenProperties DEF TypeOK
<1>2. DOMAIN alarms = 1..Len(alarms) /\ Len(alarms) \in Nat
  BY LenProperties DEF Raises
<1>3. IsFiniteSet(DOMAIN faults) /\ IsFiniteSet(DOMAIN alarms)
  BY <1>1, <1>2, FS_Interval
<1>4. /\ MadeFor(t, k) \subseteq DOMAIN faults
      /\ RaisingFor(t, k) \subseteq Callers
      /\ AlarmsFor(t, k) \subseteq DOMAIN alarms
  BY DEF MadeFor, RaisingFor, AlarmsFor
<1> QED
  BY <1>3, <1>4, CallersFinite, FS_Subset

\* What the steps of a flow, of an operator and of a request do to one count.
LEMMA BalanceMoves ==
  ASSUME TypeOK, Carries, Raises, [FlowNext]_flowVars, NEW t \in Turbines, NEW k \in Codes
  PROVE  \/ /\ MadeFor(t, k)' = MadeFor(t, k)
            /\ RaisingFor(t, k)' = RaisingFor(t, k)
            /\ AlarmsFor(t, k)' = AlarmsFor(t, k)
         \/ /\ MadeFor(t, k)' = MadeFor(t, k)
            /\ \E c : c \notin RaisingFor(t, k) /\ RaisingFor(t, k)' = RaisingFor(t, k) \cup {c}
            /\ \E n : n \notin AlarmsFor(t, k) /\ AlarmsFor(t, k)' = AlarmsFor(t, k) \cup {n}
         \/ /\ MadeFor(t, k)' = MadeFor(t, k) /\ MadeFor(t, k) # {}
            /\ AlarmsFor(t, k)' = AlarmsFor(t, k)
            /\ \E c \in RaisingFor(t, k) : RaisingFor(t, k)' = RaisingFor(t, k) \ {c}
         \/ /\ AlarmsFor(t, k)' = AlarmsFor(t, k)
            /\ \E c \in RaisingFor(t, k) : RaisingFor(t, k)' = RaisingFor(t, k) \ {c}
            /\ \E n : n \notin MadeFor(t, k) /\ MadeFor(t, k)' = MadeFor(t, k) \cup {n}
<1> DEFINE Same3 == /\ MadeFor(t, k)' = MadeFor(t, k)
                    /\ RaisingFor(t, k)' = RaisingFor(t, k)
                    /\ AlarmsFor(t, k)' = AlarmsFor(t, k)
           NewAlarm == /\ MadeFor(t, k)' = MadeFor(t, k)
                       /\ \E c : c \notin RaisingFor(t, k) /\ RaisingFor(t, k)' = RaisingFor(t, k) \cup {c}
                       /\ \E n : n \notin AlarmsFor(t, k) /\ AlarmsFor(t, k)' = AlarmsFor(t, k) \cup {n}
           GivesUp == /\ MadeFor(t, k)' = MadeFor(t, k) /\ MadeFor(t, k) # {}
                      /\ AlarmsFor(t, k)' = AlarmsFor(t, k)
                      /\ \E c \in RaisingFor(t, k) : RaisingFor(t, k)' = RaisingFor(t, k) \ {c}
           NewFault == /\ AlarmsFor(t, k)' = AlarmsFor(t, k)
                       /\ \E c \in RaisingFor(t, k) : RaisingFor(t, k)' = RaisingFor(t, k) \ {c}
                       /\ \E n : n \notin MadeFor(t, k) /\ MadeFor(t, k)' = MadeFor(t, k) \cup {n}
<1>0. /\ UNCHANGED faults => MadeFor(t, k)' = MadeFor(t, k)
      /\ UNCHANGED alarms => AlarmsFor(t, k)' = AlarmsFor(t, k)
      /\ UNCHANGED flow => RaisingFor(t, k)' = RaisingFor(t, k)
  BY DEF MadeFor, AlarmsFor, RaisingFor
<1>1. \A c \in Callers : c \in RaisingFor(t, k) <=> flow[c].at \in RaisePlaces /\ Same(flow[c], t, k)
  BY DEF RaisingFor, RaisePlaces
<1>2. Ready.at \notin RaisePlaces
  BY DEF Ready, RaisePlaces
<1>3. ASSUME NEW c \in Callers, flow[c].at \notin RaisePlaces,
             NEW next, Goto(c, next), next.at \notin RaisePlaces
      PROVE  RaisingFor(t, k)' = RaisingFor(t, k)
  <2>1. c \notin RaisingFor(t, k)
    BY <1>1, <1>3
  <2>2. RaisingFor(t, k)' = RaisingFor(t, k) \ {c}
    BY <1>3, RaisingMoves
  <2> QED
    BY <2>1, <2>2
<1>4. ASSUME NEW c \in Callers, NEW u \in Turbines, NEW r \in Rules, Evaluate(c, u, r)
      PROVE  Same3 \/ NewAlarm
  <2> DEFINE next == AfterDispatch(u, r)
  <2>1. /\ flow[c].at = "ready" /\ UNCHANGED faults
        /\ Alarms!Dispatch(u, r) /\ Goto(c, next)
    BY <1>4 DEF Evaluate, At
  <2>2. c \notin RaisingFor(t, k)
    BY <1>1, <2>1 DEF RaisePlaces
  <2>3. next.at \in RaisePlaces /\ Same(next, t, k) <=> r \in Critical /\ u = t /\ CodeOf[r] = k
    BY DEF AfterDispatch, RaisePlaces, Same, Ready
  <2> HIDE DEF next
  <2>4. PICK n : /\ n \notin DOMAIN alarms
                 /\ AlarmsFor(t, k)' = IF t = u /\ r \in Critical /\ CodeOf[r] = k
                                         THEN AlarmsFor(t, k) \cup {n}
                                         ELSE AlarmsFor(t, k)
    BY <2>1, DispatchAsks
  <2>5. n \notin AlarmsFor(t, k)
    BY <2>4 DEF AlarmsFor
  <2>6. RaisingFor(t, k)' = IF next.at \in RaisePlaces /\ Same(next, t, k)
                              THEN RaisingFor(t, k) \cup {c}
                              ELSE RaisingFor(t, k) \ {c}
    BY <2>1, RaisingMoves
  <2> QED
    BY <1>0, <2>1, <2>2, <2>3, <2>4, <2>5, <2>6
<1>5. ASSUME NEW c \in Callers, PipelineRaise(c)
      PROVE  Same3 \/ GivesUp
  <2>0. /\ flow[c].at = "raise" /\ UNCHANGED <<faults, alarms>>
        /\ c \in RaisingFor(t, k) <=> Same(flow[c], t, k)
    BY <1>1, <1>5 DEF PipelineRaise, At, RaiseLookup, Begin, RaisePlaces
  <2>1. CASE OpenFor(flow[c].turbine, flow[c].code) # {} /\ Goto(c, Ready)
    <3>1. Same(flow[c], t, k) => MadeFor(t, k) # {}
      BY <2>1 DEF OpenFor, MadeFor, Same
    <3>2. RaisingFor(t, k)' = RaisingFor(t, k) \ {c}
      BY <1>2, <2>1, RaisingMoves
    <3> QED
      BY <1>0, <2>0, <3>1, <3>2
  <2>2. CASE Goto(c, [flow[c] EXCEPT !.at = "create"])
    <3> DEFINE next == [flow[c] EXCEPT !.at = "create"]
    <3>1. next.at = "create" /\ next.turbine = flow[c].turbine /\ next.code = flow[c].code
      BY <1>5 DEF PipelineRaise, At, Carries, FlowType, Ready, Ordering
    <3> HIDE DEF next
    <3>2. Goto(c, next)
      BY <2>2 DEF next
    <3>3. RaisingFor(t, k)' = IF next.at \in RaisePlaces /\ Same(next, t, k)
                                THEN RaisingFor(t, k) \cup {c}
                                ELSE RaisingFor(t, k) \ {c}
      BY <3>2, RaisingMoves
    <3>4. next.at \in RaisePlaces /\ (Same(next, t, k) <=> Same(flow[c], t, k))
      BY <3>1 DEF RaisePlaces, Same
    <3>5. RaisingFor(t, k)' = RaisingFor(t, k)
      BY <2>0, <3>3, <3>4
    <3> QED
      BY <1>0, <2>0, <3>5
  <2> QED
    BY <1>5, <2>1, <2>2 DEF PipelineRaise
<1>6. ASSUME NEW c \in Callers, PipelineCreate(c)
      PROVE  Same3 \/ NewFault
  <2>1. /\ flow[c].at = "create" /\ UNCHANGED alarms /\ Goto(c, Ready) /\ RaiseCreate(c)
        /\ c \in RaisingFor(t, k) <=> Same(flow[c], t, k)
    BY <1>1, <1>6 DEF PipelineCreate, At, RaisePlaces
  <2>2. /\ call[c].turbine = flow[c].turbine /\ call[c].code = flow[c].code
        /\ flow[c].turbine \in Turbines /\ flow[c].code \in Codes
    <3>1. flow[c] \in FlowType
      BY DEF Carries
    <3>2. flow[c] \in [at : {"raise", "create"}, turbine : Turbines, code : Codes]
      BY <2>1, <3>1 DEF FlowType, Ready, Ordering
    <3> QED
      BY <2>1, <3>2 DEF Raises, At
  <2> DEFINE new == [turbine |-> call[c].turbine, code |-> call[c].code, state |-> "warning"]
  <2>3. faults' = Append(faults, new)
    BY <2>1, <2>2, NoTurbineIsNone DEF RaiseCreate
  <2>4. /\ new \in Fault
        /\ Same(new, t, k) <=> Same(flow[c], t, k)
    BY <2>2 DEF Fault, State, Same
  <2> HIDE DEF new
  <2>5. PICK n : n = Len(faults) + 1
    OBVIOUS
  <2>6. /\ DOMAIN faults' = DOMAIN faults \cup {n} /\ n \notin DOMAIN faults
        /\ faults'[n] = new
        /\ \A j \in DOMAIN faults : faults'[j] = faults[j]
    BY <2>3, <2>4, <2>5, CreateProperties DEF TypeOK
  <2>7. MadeFor(t, k)' = IF Same(new, t, k) THEN MadeFor(t, k) \cup {n} ELSE MadeFor(t, k)
    BY <2>6 DEF MadeFor, Same
  <2>8. n \notin MadeFor(t, k)
    BY <2>6 DEF MadeFor
  <2>9. RaisingFor(t, k)' = RaisingFor(t, k) \ {c}
    BY <1>2, <2>1, RaisingMoves
  <2>10. UNCHANGED alarms => AlarmsFor(t, k)' = AlarmsFor(t, k)
    BY <1>0
  <2> QED
    BY <2>1, <2>4, <2>7, <2>8, <2>9, <2>10
<1>7. ASSUME NEW c \in Callers, NEW i \in DOMAIN faults, DispatchRead(c, i)
      PROVE  Same3
  BY <1>0, <1>3, <1>7 DEF DispatchRead, At, RaisePlaces
<1>8. ASSUME NEW c \in Callers, DispatchSchedule(c)
      PROVE  Same3
  BY <1>0, <1>3, <1>8 DEF DispatchSchedule, At, RaisePlaces
<1>9. ASSUME NEW c \in Callers, DispatchAckRead(c) \/ DispatchAckWrite(c)
      PROVE  Same3
  <2>1. flow[c].at \notin RaisePlaces /\ \E next : Goto(c, next) /\ next.at \notin RaisePlaces
    <3>1. flow[c] \in FlowType /\ flow[c].at \in Ordering /\ flow[c].at \notin RaisePlaces
      BY <1>9 DEF DispatchAckRead, DispatchAckWrite, At, Carries, Ordering, RaisePlaces
    <3>2. flow[c] \in [at : Ordering, fault : Nat, order : Nat]
      BY <3>1 DEF FlowType, Ready, Ordering
    <3>3. \A where : [flow[c] EXCEPT !.at = where].at = where
      BY <3>2
    <3> QED
      BY <1>2, <1>9, <3>1, <3>3 DEF DispatchAckRead, DispatchAckWrite, RaisePlaces
  <2>2. MadeFor(t, k)' = MadeFor(t, k)
    <3>1. CASE DispatchAckRead(c)
      BY <1>0, <3>1 DEF DispatchAckRead, AcknowledgeGet, Begin
    <3>2. CASE DispatchAckWrite(c)
      <4>1. call[c].id \in DOMAIN faults /\ Transition(call[c].id, "maintenance")
        BY <3>2 DEF DispatchAckWrite, AcknowledgeTransition, TypeOK
      <4> QED
        BY <4>1, TransitionKeepsMade DEF State
    <3> QED
      BY <1>9, <3>1, <3>2
  <2> QED
    BY <1>0, <1>3, <1>9, <2>1, <2>2 DEF DispatchAckRead, DispatchAckWrite
<1>10. ASSUME NEW c \in Callers, DispatchAnnounce(c)
       PROVE  Same3
  BY <1>0, <1>2, <1>3, <1>10 DEF DispatchAnnounce, At, RaisePlaces
<1>11. ASSUME NEW c \in Callers, Operate(c)
       PROVE  Same3
  <2>1. MadeFor(t, k)' = MadeFor(t, k)
    <3>1. CASE UNCHANGED faults
      BY <1>0, <3>1
    <3>2. CASE AcknowledgeTransition(c) \/ ResolveTransition(c)
      <4>1. PICK to \in State : call[c].id \in DOMAIN faults /\ Transition(call[c].id, to)
        BY <3>2 DEF AcknowledgeTransition, ResolveTransition, TypeOK, State
      <4> QED
        BY <4>1, TransitionKeepsMade
    <3> QED
      BY <1>11, <3>1, <3>2 DEF Operate, AcknowledgeGet, ResolveGet, Begin
  <2> QED
    BY <1>0, <1>11, <2>1 DEF Operate
<1>12. ASSUME NEW i \in DOMAIN alarms, AckOrResolveAlarm(i)
       PROVE  Same3
  <2>1. UNCHANGED <<faults, flow>>
    BY <1>12 DEF AckOrResolveAlarm
  <2> QED
    BY <1>0, <1>12, <2>1, StatusKeepsAsking
<1>13. CASE UNCHANGED flowVars
  BY <1>0, <1>13 DEF flowVars
<1> QED
  BY <1>4, <1>5, <1>6, <1>7, <1>8, <1>9, <1>10, <1>11, <1>12, <1>13 DEF FlowNext

\* FaultsMatchAlarms for any pipelines, dispatchers and operators at once and
\* any rules that share codes.
THEOREM FaultsAndAlarmsAccount == FlowSpec => []FaultsMatchAlarms
<1>1. FlowInit => Raises /\ FaultsMatchAlarms
  <2>1. FlowInit => Raises
    BY EmptySeq DEF FlowInit, Raises, Ready, RaisePlaces, At
  <2>2. FlowInit => \A t, k : MadeFor(t, k) = {} /\ RaisingFor(t, k) = {} /\ AlarmsFor(t, k) = {}
    BY DEF FlowInit, Init, Ready, MadeFor, RaisingFor, AlarmsFor
  <2>3. Cardinality({}) = 0
    BY FS_EmptySet
  <2>4. ASSUME FlowInit
        PROVE  FaultsMatchAlarms
    <3>1. SUFFICES ASSUME NEW t \in Turbines, NEW k \in Codes
                   PROVE  /\ Cardinality(MadeFor(t, k)) + Cardinality(RaisingFor(t, k))
                               <= Cardinality(AlarmsFor(t, k))
                          /\ AlarmsFor(t, k) = {}
      BY DEF FaultsMatchAlarms
    <3>2. MadeFor(t, k) = {} /\ RaisingFor(t, k) = {} /\ AlarmsFor(t, k) = {}
      BY <2>2, <2>4
    <3> QED
      BY <2>3, <3>2
  <2> QED
    BY <2>1, <2>4
<1>2. TypeOK /\ Carries /\ Raises /\ FaultsMatchAlarms /\ [FlowNext]_flowVars
      => Raises' /\ FaultsMatchAlarms'
  <2> SUFFICES ASSUME TypeOK, Carries, Raises, FaultsMatchAlarms, [FlowNext]_flowVars
               PROVE  Raises' /\ FaultsMatchAlarms'
    OBVIOUS
  <2>1. ASSUME NEW t \in Turbines, NEW k \in Codes
        PROVE  /\ Cardinality(MadeFor(t, k)') + Cardinality(RaisingFor(t, k)') <= Cardinality(AlarmsFor(t, k)')
               /\ AlarmsFor(t, k)' # {} => MadeFor(t, k)' \cup RaisingFor(t, k)' # {}
    <3>1. /\ Cardinality(MadeFor(t, k)) + Cardinality(RaisingFor(t, k)) <= Cardinality(AlarmsFor(t, k))
          /\ AlarmsFor(t, k) # {} => MadeFor(t, k) \cup RaisingFor(t, k) # {}
      BY DEF FaultsMatchAlarms
    <3> QED
      BY <3>1, FlowCountsAreFinite, BalanceMoves, BalanceKept
  <2>2. FaultsMatchAlarms'
    BY <2>1 DEF FaultsMatchAlarms
  <2> QED
    BY <2>2, RaisesStep
<1> QED
  BY <1>1, <1>2, FlowInvariant, PTL DEF FlowSpec

=============================================================================
