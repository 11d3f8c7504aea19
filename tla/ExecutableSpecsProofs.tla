------------------------ MODULE ExecutableSpecsProofs ------------------------
(***************************************************************************)
(* What the checks promise of a machine, for every document whatever its   *)
(* states, events and transitions: nothing here depends on the two that    *)
(* are shipped, nor on a bound on the edits.                               *)
(*                                                                         *)
(* The argument has one idea.  The machine moves along an accepted         *)
(* transition of its document or not at all (MovesAreAccepted); since the  *)
(* key of a transition is unique, the transition a check found is the one  *)
(* the machine obeys (CheckedIsObeyed).  Each rule over the accepted       *)
(* transitions then becomes a fact about the machine's steps.              *)
(***************************************************************************)
EXTENDS ExecutableSpecs, TLAPS

LEMMA SingletonExtremes ==
    ASSUME NEW i \in Nat
    PROVE  Min({i}) = i /\ Max({i}) = i
  BY DEF Min, Max

LEMMA UniqueRow ==
    ASSUME NEW d, WellFormed(d), UniqueTransitions(d), NEW source, NEW event,
           NEW i \in RowsFor(d, source, event)
    PROVE  /\ RowsFor(d, source, event) = {i}
           /\ i \in Nat /\ i \in DOMAIN d.transitions
           /\ d.transitions[i] \in Row
  <1>1. i \in DOMAIN d.transitions  BY DEF RowsFor
  <1>2. d.transitions \in Seq(Row)  BY DEF WellFormed
  <1>3. i \in Nat /\ d.transitions[i] \in Row  BY <1>1, <1>2
  <1>4. ASSUME NEW j \in RowsFor(d, source, event) PROVE j = i
    BY DEF RowsFor, UniqueTransitions
  <1>. QED  BY <1>1, <1>3, <1>4

\* A machine that leaves a state leaves it along an accepted transition.
LEMMA MovesAreAccepted ==
    ASSUME NEW d, WellFormed(d), UniqueTransitions(d), NEW source, NEW event,
           After(d, source, event) # source
    PROVE  \E i \in AcceptedRows(d) :
                /\ d.transitions[i].source = source
                /\ d.transitions[i].event = event
                /\ d.transitions[i].target = After(d, source, event)
  <1>1. PICK i \in Configured(d, source, event) : TRUE  BY DEF After
  <1>2. i \in RowsFor(d, source, event)  BY <1>1 DEF Configured
  <1>3. RowsFor(d, source, event) = {i} /\ i \in Nat /\ i \in DOMAIN d.transitions
    BY <1>2, UniqueRow
  <1>4. Configured(d, source, event) = {i}  BY <1>1, <1>3 DEF Configured
  <1>5. Max(Configured(d, source, event)) = i  BY <1>3, <1>4, SingletonExtremes
  <1>6. d.transitions[i].disposition = "accepted" /\ d.transitions[i].target = After(d, source, event)
    BY <1>5 DEF After
  <1>. QED  BY <1>2, <1>3, <1>6 DEF AcceptedRows, RowsFor

\* The transition that assertTransition looked at is the one the machine obeys.
LEMMA CheckedIsObeyed ==
    ASSUME NEW d, WellFormed(d), UniqueTransitions(d), NEW source, NEW event, NEW target,
           AssertTransition(d, source, event, "accepted", target)
    PROVE  /\ After(d, source, event) = target
           /\ \E i \in AcceptedRows(d) :
                /\ d.transitions[i].source = source
                /\ d.transitions[i].event = event
                /\ d.transitions[i].target = target
  <1>1. PICK i \in RowsFor(d, source, event) : TRUE  BY DEF AssertTransition
  <1>2. RowsFor(d, source, event) = {i} /\ i \in Nat /\ i \in DOMAIN d.transitions
    BY UniqueRow
  <1>3. TransitionFor(d, source, event) = d.transitions[i]
    BY <1>2, SingletonExtremes DEF TransitionFor
  <1>4. d.transitions[i].disposition = "accepted" /\ d.transitions[i].target = target
    BY <1>3 DEF AssertTransition
  <1>5. Configured(d, source, event) = {i}  BY <1>2, <1>4 DEF Configured
  <1>6. Max(Configured(d, source, event)) = i  BY <1>2, <1>5, SingletonExtremes
  <1>7. After(d, source, event) = target  BY <1>4, <1>5, <1>6 DEF After
  <1>. QED  BY <1>1, <1>2, <1>4, <1>7 DEF AcceptedRows, RowsFor

LEMMA NumberType ==
    ASSUME NEW d, WellFormed(d), NEW id \in StateIds(d)
    PROVE  Number(d, id) \in Nat
  <1>1. PICK i \in DOMAIN d.states : d.states[i].id = id  BY DEF StateIds
  <1>2. (CHOOSE j \in DOMAIN d.states : d.states[j].id = id) \in DOMAIN d.states  BY <1>1
  <1>3. ASSUME NEW j \in DOMAIN d.states PROVE d.states[j].number \in Nat
    <2>1. d.states \in Seq(StateRow)  BY DEF WellFormed
    <2>2. d.states[j] \in StateRow  BY <2>1
    <2>. QED  BY <2>2 DEF StateRow
  <1>. QED  BY <1>2, <1>3 DEF Number, StateOf

LEMMA AcceptedRowsDeclared ==
    ASSUME NEW d, TransitionsDeclared(d), NEW i \in AcceptedRows(d)
    PROVE  /\ d.transitions[i].source \in StateIds(d)
           /\ d.transitions[i].target \in StateIds(d)
           /\ d.transitions[i].event \in DOMAIN d.events
  BY DEF TransitionsDeclared, AcceptedRows

\* What a document that was let through guarantees of each accepted transition.
LEMMA AcceptedNumbers ==
    ASSUME NEW d, WellFormed(d), AssertOwnedSemantics(d), NEW i \in AcceptedRows(d)
    PROVE  Number(d, d.transitions[i].target) >= Number(d, d.transitions[i].source)
  <1>1. TransitionsDeclared(d)  BY DEF AssertOwnedSemantics, AssertGenericSemantics
  <1>2. /\ Number(d, d.transitions[i].source) \in Nat
        /\ Number(d, d.transitions[i].target) \in Nat
    BY <1>1, AcceptedRowsDeclared, NumberType
  <1>3. CASE AssertRunAuthoritySemantics(d)
    BY <1>3 DEF AssertRunAuthoritySemantics, GenerationMonotonic
  <1>4. CASE AssertProjectSemantics(d)
    <2>1. d.transitions[i].source = Open /\ d.transitions[i].target = Retired
      BY <1>4 DEF AssertProjectSemantics, OnlyRetirementAccepted
    <2>2. Number(d, Retired) > Number(d, Open)  BY <1>4 DEF AssertProjectSemantics
    <2>. QED  BY <2>1, <2>2, <1>2
  <1>. QED  BY <1>3, <1>4 DEF AssertOwnedSemantics

-----------------------------------------------------------------------------
\* The inductive invariant: a machine was derived from a document that passed.
Passed(d) == d \in Documents /\ AssertOwnedSemantics(d)

IInv ==
    /\ document \in Documents
    /\ machine # NoMachine => machine = document /\ Passed(machine)
    /\ TypeOK

LEMMA PassedFacts ==
    ASSUME NEW d, Passed(d)
    PROVE  /\ WellFormed(d)
           /\ UniqueTransitions(d)
           /\ TransitionsDeclared(d)
           /\ TerminalStatesClosed(d)
           /\ InertInputsRefused(d)
           /\ d.initialState \in StateIds(d)
  BY ExecutableSpecsAssumption
     DEF Passed, AssertOwnedSemantics, AssertGenericSemantics,
         AssertRunAuthoritySemantics, AssertProjectSemantics

LEMMA AfterDeclared ==
    ASSUME NEW d, Passed(d), NEW source \in StateIds(d), NEW event
    PROVE  After(d, source, event) \in StateIds(d)
  <1>1. CASE After(d, source, event) = source  BY <1>1
  <1>2. CASE After(d, source, event) # source
    <2>1. PICK i \in AcceptedRows(d) : d.transitions[i].target = After(d, source, event)
      BY <1>2, PassedFacts, MovesAreAccepted
    <2>. QED  BY <2>1, PassedFacts, AcceptedRowsDeclared
  <1>. QED  BY <1>1, <1>2

LEMMA Invariance == Spec => []IInv
  <1>1. Init => IInv
    BY ExecutableSpecsAssumption DEF Init, IInv, TypeOK
  <1>2. IInv /\ [Next]_vars => IInv'
    <2> SUFFICES ASSUME IInv, [Next]_vars PROVE IInv'  OBVIOUS
    <2>1. CASE DeriveMachine
      <3>1. machine' = document /\ document' = document /\ state' = document.initialState
        BY <2>1 DEF DeriveMachine
      <3>2. Passed(document)  BY <2>1 DEF DeriveMachine, IInv, Passed
      <3>3. document # NoMachine  BY ExecutableSpecsAssumption DEF IInv
      <3>4. WellFormed(document) /\ document.initialState \in StateIds(document)
        BY <3>2, PassedFacts
      <3>5. TypeOK'  BY <3>1, <3>3, <3>4 DEF TypeOK
      <3>6. Passed(machine)'  BY <3>1, <3>2 DEF Passed
      <3>. QED  BY <3>1, <3>5, <3>6 DEF IInv
    <2>2. ASSUME NEW event \in AnyEvent, ApplyMachineEvent(event) PROVE IInv'
      <3>1. machine # NoMachine /\ machine' = machine /\ document' = document
        BY <2>2 DEF ApplyMachineEvent
      <3>2. Passed(machine) /\ state \in StateIds(machine)  BY <3>1 DEF IInv, TypeOK
      <3>3. state' \in StateIds(machine)
        BY <2>2, <3>2, AfterDeclared DEF ApplyMachineEvent
      <3>4. TypeOK'  BY <3>1, <3>3 DEF TypeOK, IInv
      <3>5. Passed(machine)'  BY <3>1, <3>2 DEF Passed
      <3>. QED  BY <3>1, <3>4, <3>5 DEF IInv
    <2>3. CASE UNCHANGED vars  BY <2>3 DEF vars, IInv, TypeOK, Passed
    <2>. QED  BY <2>1, <2>2, <2>3 DEF Next
  <1>. QED  BY <1>1, <1>2, PTL DEF Spec

\* A running machine moves along an accepted transition of its document.
LEMMA StepFacts ==
    ASSUME IInv, [Next]_vars, Running
    PROVE  /\ machine' = machine /\ Passed(machine) /\ state \in StateIds(machine)
           /\ state' # state =>
                \E i \in AcceptedRows(machine) :
                    /\ machine.transitions[i].source = state
                    /\ machine.transitions[i].target = state'
  <1>1. Passed(machine) /\ state \in StateIds(machine)  BY DEF IInv, TypeOK, Running
  <1>2. CASE UNCHANGED vars  BY <1>1, <1>2 DEF vars
  <1>3. ASSUME NEW event \in AnyEvent, ApplyMachineEvent(event)
        PROVE  /\ machine' = machine
               /\ state' # state =>
                    \E i \in AcceptedRows(machine) :
                        /\ machine.transitions[i].source = state
                        /\ machine.transitions[i].target = state'
    BY <1>1, <1>3, PassedFacts, MovesAreAccepted DEF ApplyMachineEvent
  <1>4. ~DeriveMachine  BY DEF DeriveMachine, Running
  <1>. QED  BY <1>1, <1>2, <1>3, <1>4 DEF Next

-----------------------------------------------------------------------------
\* A machine is only ever in a state its document declares.
THEOREM ExecutableSpecsTypeOK == Spec => []TypeOK
  <1>1. IInv => TypeOK  BY DEF IInv
  <1>. QED  BY <1>1, Invariance, PTL

\* Terminal states absorb every input.
THEOREM ExecutableSpecsTerminal == Spec => TerminalAbsorbs
  <1>1. IInv /\ [Next]_vars => [Running /\ Terminal(machine, state) => state' = state]_vars
    <2> SUFFICES ASSUME IInv, [Next]_vars, Running, Terminal(machine, state)
                 PROVE  state' = state
      OBVIOUS
    <2>1. TerminalStatesClosed(machine)  BY StepFacts, PassedFacts
    <2>. QED  BY <2>1, StepFacts DEF TerminalStatesClosed
  <1>. QED  BY <1>1, Invariance, PTL DEF Spec, TerminalAbsorbs

\* Generations and deletion epochs never decrease.
THEOREM ExecutableSpecsMonotonic == Spec => NumberNeverDecreases
  <1>1. IInv /\ [Next]_vars
            => [Running => Number(machine', state') >= Number(machine, state)]_vars
    <2> SUFFICES ASSUME IInv, [Next]_vars, Running
                 PROVE  Number(machine', state') >= Number(machine, state)
      OBVIOUS
    <2>1. machine' = machine /\ Passed(machine) /\ Number(machine, state) \in Nat
      BY StepFacts, PassedFacts, NumberType
    <2>2. CASE state' = state  BY <2>1, <2>2
    <2>3. CASE state' # state
      <3>1. PICK i \in AcceptedRows(machine) :
                /\ machine.transitions[i].source = state
                /\ machine.transitions[i].target = state'
        BY <2>3, StepFacts
      <3>2. WellFormed(machine) /\ AssertOwnedSemantics(machine)
        BY <2>1, PassedFacts DEF Passed
      <3>. QED  BY <2>1, <3>1, <3>2, AcceptedNumbers
    <2>. QED  BY <2>2, <2>3
  <1>. QED  BY <1>1, Invariance, PTL DEF Spec, NumberNeverDecreases

LEMMA RunAuthorityPassed ==
    ASSUME NEW d, Passed(d), IsRunAuthority(d)
    PROVE  AssertRunAuthoritySemantics(d)
  BY DEF Passed, AssertOwnedSemantics, IsRunAuthority, IsProjectLifecycle

LEMMA ProjectPassed ==
    ASSUME NEW d, Passed(d), IsProjectLifecycle(d)
    PROVE  AssertProjectSemantics(d)
  BY DEF Passed, AssertOwnedSemantics, IsRunAuthority, IsProjectLifecycle

\* Suspension and reauthorization advance the generation exactly once.
THEOREM ExecutableSpecsAdvances == Spec => []AuthorityAdvancesByOne
  <1>1. IInv => AuthorityAdvancesByOne
    <2> SUFFICES ASSUME IInv, RunsAuthority, NEW event \in GenerationAdvancingEvents,
                        After(machine, state, event) # state
                 PROVE  Number(machine, After(machine, state, event)) = Number(machine, state) + 1
      BY DEF AuthorityAdvancesByOne
    <2>1. Passed(machine)  BY DEF IInv, RunsAuthority, Running
    <2>2. GenerationAdvances(machine)
      BY <2>1, RunAuthorityPassed DEF RunsAuthority, AssertRunAuthoritySemantics
    <2>. QED  BY <2>1, <2>2, PassedFacts, MovesAreAccepted DEF GenerationAdvances
  <1>. QED  BY <1>1, Invariance, PTL

\* Opaque evidence and stale commands move nothing.
THEOREM ExecutableSpecsInert == Spec => []InertInputs
  <1>1. IInv => InertInputs
    <2> SUFFICES ASSUME IInv, Running, NEW event \in DOMAIN machine.events,
                        machine.events[event] \in InertCategories,
                        After(machine, state, event) # state
                 PROVE  FALSE
      BY DEF InertInputs
    <2>1. Passed(machine)  BY DEF IInv, Running
    <2>2. PICK i \in AcceptedRows(machine) : machine.transitions[i].event = event
      BY <2>1, PassedFacts, MovesAreAccepted
    <2>. QED  BY <2>1, <2>2, PassedFacts DEF InertInputsRefused, AcceptedRows
  <1>. QED  BY <1>1, Invariance, PTL

\* Revocation and expiry suspend the first authority, in every machine.
THEOREM ExecutableSpecsRevocation == Spec => []RevocationSuspends
  <1>1. IInv => RevocationSuspends
    <2> SUFFICES ASSUME IInv, RunsAuthority, state = ActiveA
                 PROVE  /\ After(machine, state, "VERIFIED_REVOCATION") = Suspended
                        /\ After(machine, state, "AUTHORITY_EXPIRED") = Suspended
      BY DEF RevocationSuspends
    <2>1. Passed(machine)  BY DEF IInv, RunsAuthority, Running
    <2>2. RequiredAuthorityTransitions(machine)
      BY <2>1, RunAuthorityPassed DEF RunsAuthority, AssertRunAuthoritySemantics
    <2>. QED  BY <2>1, <2>2, PassedFacts, CheckedIsObeyed DEF RequiredAuthorityTransitions
  <1>. QED  BY <1>1, Invariance, PTL

\* A project is retired by the commit of its retirement alone.
THEOREM ExecutableSpecsRetirement == Spec => []RetiredOnlyByCommit
  <1>1. IInv => RetiredOnlyByCommit
    <2> SUFFICES ASSUME IInv, RunsProject, state # Retired, NEW event \in AnyEvent,
                        After(machine, state, event) = Retired
                 PROVE  event = "COMMIT_RETIREMENT"
      BY DEF RetiredOnlyByCommit
    <2>1. Passed(machine)  BY DEF IInv, RunsProject, Running
    <2>2. OnlyRetirementAccepted(machine)
      BY <2>1, ProjectPassed DEF RunsProject, AssertProjectSemantics
    <2>. QED  BY <2>1, <2>2, PassedFacts, MovesAreAccepted DEF OnlyRetirementAccepted
  <1>. QED  BY <1>1, Invariance, PTL

-----------------------------------------------------------------------------
\* The authority was cut: its generation is past the first one.
Cut == RunsAuthority /\ Number(machine, state) > Number(machine, ActiveA)

\* Once suspended, a run never has its first authority again.  No transition
\* by itself shows it: suspension raises the generation, and what has been
\* raised stays above that of the first authority on every path.
THEOREM ExecutableSpecsNeverReopens == Spec => PredecessorNeverReopens
  <1>1. IInv /\ RunsAuthority /\ state = Suspended => Cut
    <2> SUFFICES ASSUME IInv, RunsAuthority, state = Suspended PROVE Cut  OBVIOUS
    <2>1. Passed(machine)  BY DEF IInv, RunsAuthority, Running
    <2>2. AssertRunAuthoritySemantics(machine)  BY <2>1, RunAuthorityPassed DEF RunsAuthority
    <2>3. PICK i \in AcceptedRows(machine) :
            /\ machine.transitions[i].source = ActiveA
            /\ machine.transitions[i].event = "VERIFIED_REVOCATION"
            /\ machine.transitions[i].target = Suspended
      BY <2>1, <2>2, PassedFacts, CheckedIsObeyed
         DEF AssertRunAuthoritySemantics, RequiredAuthorityTransitions
    <2>4. Number(machine, Suspended) = Number(machine, ActiveA) + 1
      BY <2>2, <2>3
         DEF AssertRunAuthoritySemantics, GenerationAdvances, GenerationAdvancingEvents
    <2>5. Number(machine, ActiveA) \in Nat
      BY <2>1, <2>3, PassedFacts, AcceptedRowsDeclared, NumberType
    <2>. QED  BY <2>4, <2>5 DEF Cut
  <1>2. IInv /\ Cut /\ [Next]_vars => Cut'
    <2> SUFFICES ASSUME IInv, Cut, [Next]_vars PROVE Cut'  OBVIOUS
    <2>1. Running  BY DEF Cut, RunsAuthority
    <2>2. machine' = machine /\ Passed(machine)  BY <2>1, StepFacts
    <2>3. RunsAuthority'  BY <2>2 DEF Cut, RunsAuthority, Running
    <2>4. CASE state' = state  BY <2>2, <2>3, <2>4 DEF Cut
    <2>5. CASE state' # state
      <3>1. PICK i \in AcceptedRows(machine) :
                /\ machine.transitions[i].source = state
                /\ machine.transitions[i].target = state'
        BY <2>1, <2>5, StepFacts
      <3>2. Number(machine, state') >= Number(machine, state)
        BY <2>2, <3>1, PassedFacts, AcceptedNumbers DEF Passed
      <3>3. /\ Number(machine, state) \in Nat /\ Number(machine, state') \in Nat
        BY <2>2, <3>1, PassedFacts, AcceptedRowsDeclared, NumberType
      <3>4. RequiredAuthorityTransitions(machine)
        BY <2>2, RunAuthorityPassed DEF Cut, RunsAuthority, AssertRunAuthoritySemantics
      <3>5. \E j \in AcceptedRows(machine) : machine.transitions[j].source = ActiveA
        BY <2>2, <3>4, PassedFacts, CheckedIsObeyed DEF RequiredAuthorityTransitions
      <3>6. Number(machine, ActiveA) \in Nat
        BY <2>2, <3>5, PassedFacts, AcceptedRowsDeclared, NumberType
      <3>. QED  BY <2>2, <2>3, <3>2, <3>3, <3>6 DEF Cut
    <2>. QED  BY <2>4, <2>5
  <1>3. IInv /\ Cut => state # ActiveA
    <2> SUFFICES ASSUME IInv, Cut, state = ActiveA PROVE FALSE  OBVIOUS
    <2>1. Number(machine, ActiveA) \in Nat
      BY PassedFacts, NumberType DEF IInv, TypeOK, Cut, RunsAuthority, Running
    <2>. QED  BY <2>1 DEF Cut
  <1>. QED  BY <1>1, <1>2, <1>3, Invariance, PTL DEF Spec, PredecessorNeverReopens

=============================================================================
