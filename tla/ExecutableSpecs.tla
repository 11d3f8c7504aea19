--------------------------- MODULE ExecutableSpecs ---------------------------
(***************************************************************************)
(* The checks that stand between an edited executable specification and    *)
(* the machine derived from it (scripts/orchestration-specs).              *)
(*                                                                         *)
(* The document an editor left is checked and turned into a machine that   *)
(* then receives events.  The checks read the FIRST transition declared for a   *)
(* state and an event; the machine is built by assigning one entry per     *)
(* transition in order, so it obeys the LAST one that is not rejected.     *)
(* What the checks promise of the machine therefore depends on how they    *)
(* work together, which is what the properties below are about.            *)
(***************************************************************************)
EXTENDS AuthorityDocuments, FiniteSets, FiniteSetsExt

CONSTANTS Documents,     \* the documents an editor may leave in the file
          NoMachine,     \* no machine is derived yet
          UndeclaredEvent

VARIABLES document,      \* the document in the file
          machine,       \* the document the running machine was derived from
          state          \* the state of the machine's snapshot

vars == <<document, machine, state>>

\* The schema of a document, for the parts that are modelled.
StateRow == [id : STRING, status : STRING, number : Nat, terminal : BOOLEAN]
Row == [source : STRING, event : STRING,
        disposition : {"accepted", "ignored", "rejected"},
        target : STRING, authorityMutation : BOOLEAN]

WellFormed(d) ==
    /\ d.states \in Seq(StateRow)
    /\ d.transitions \in Seq(Row)

ASSUME ExecutableSpecsAssumption ==
    /\ \A d \in Documents : WellFormed(d)
    /\ NoMachine \notin Documents

-----------------------------------------------------------------------------
StateIds(d) == {d.states[i].id : i \in DOMAIN d.states}
StateOf(d, id) == d.states[CHOOSE i \in DOMAIN d.states : d.states[i].id = id]
Number(d, id) == StateOf(d, id).number
Terminal(d, id) == StateOf(d, id).terminal

RowsFor(d, source, event) ==
    {i \in DOMAIN d.transitions :
        d.transitions[i].source = source /\ d.transitions[i].event = event}

AcceptedRows(d) == {i \in DOMAIN d.transitions : d.transitions[i].disposition = "accepted"}

\* The transition the checks look at.
TransitionFor(d, source, event) == d.transitions[Min(RowsFor(d, source, event))]

\* The transitions the machine is built from.
Configured(d, source, event) ==
    {i \in RowsFor(d, source, event) : d.transitions[i].disposition # "rejected"}

\* Mutant: an ignored transition is given its target, which is none.
AfterAnyRow(d, source, event) ==
    LET configured == Configured(d, source, event)
    IN IF configured # {} THEN d.transitions[Max(configured)].target ELSE source

\* An event nothing is configured for leaves the snapshot alone.
After(d, source, event) ==
    LET configured == Configured(d, source, event)
        row == d.transitions[Max(configured)]
    IN IF configured # {} /\ row.disposition = "accepted" THEN row.target ELSE source

\* The states after 0, 1, ... events of a trace.
RunEventSequence(d, steps) ==
    LET run[n \in 0..Len(steps)] ==
            IF n = 0 THEN d.initialState ELSE After(d, run[n - 1], steps[n][1])
    IN run

-----------------------------------------------------------------------------
\* assertGenericSemantics, one operator per rule.
UniqueStates(d) ==
    \A i, j \in DOMAIN d.states : d.states[i].id = d.states[j].id => i = j

\* Mutant: the key of a transition takes in its disposition.
UniqueOutcomes(d) ==
    \A i, j \in DOMAIN d.transitions :
        (/\ d.transitions[i].source = d.transitions[j].source
         /\ d.transitions[i].event = d.transitions[j].event
         /\ d.transitions[i].disposition = d.transitions[j].disposition) => i = j

UniqueTransitions(d) ==
    \A i, j \in DOMAIN d.transitions :
        (/\ d.transitions[i].source = d.transitions[j].source
         /\ d.transitions[i].event = d.transitions[j].event) => i = j

DeclaredCoordinates(d) ==
    \A i \in DOMAIN d.states :
        d.states[i].status \in d.statuses /\ d.states[i].number \in d.numbers

TransitionsDeclared(d) ==
    \A i \in DOMAIN d.transitions :
        LET row == d.transitions[i]
        IN /\ row.source \in StateIds(d)
           /\ row.event \in DOMAIN d.events
           /\ IF row.disposition = "accepted"
              THEN row.authorityMutation /\ row.target \in StateIds(d)
              ELSE ~row.authorityMutation /\ row.target = NoTarget

TerminalStatesClosed(d) ==
    \A i \in AcceptedRows(d) : ~Terminal(d, d.transitions[i].source)

TracesReplay(d) ==
    \A t \in DOMAIN d.traces :
        LET steps == d.traces[t]
        IN \A n \in DOMAIN steps :
            /\ steps[n][1] \in DOMAIN d.events
            /\ steps[n][2] \in StateIds(d)
            /\ RunEventSequence(d, steps)[n] = steps[n][2]

FaultsDeclared(d) ==
    \A f \in DOMAIN d.faultCases :
        LET fault == d.faultCases[f]
        IN /\ fault.source \in StateIds(d)
           /\ fault.event \in DOMAIN d.events
           /\ RowsFor(d, fault.source, fault.event) # {}
           /\ TransitionFor(d, fault.source, fault.event).disposition
                = fault.expectedDisposition
           /\ fault.expectedState = fault.source

AssertGenericSemantics(d) ==
    /\ UniqueStates(d)
    /\ UniqueTransitions(d)
    /\ d.initialState \in StateIds(d)
    /\ DeclaredCoordinates(d)
    /\ TransitionsDeclared(d)
    /\ TerminalStatesClosed(d)
    /\ TracesReplay(d)
    /\ FaultsDeclared(d)

-----------------------------------------------------------------------------
AssertTransition(d, source, event, disposition, target) ==
    /\ RowsFor(d, source, event) # {}
    /\ TransitionFor(d, source, event).disposition = disposition
    /\ TransitionFor(d, source, event).target = target

RequiredAuthorityTransitions(d) ==
    /\ AssertTransition(d, ActiveA, "EXPLICIT_REAUTHORIZATION", "rejected", NoTarget)
    /\ AssertTransition(d, ActiveA, "VERIFIED_REVOCATION", "accepted", Suspended)
    /\ AssertTransition(d, ActiveA, "AUTHORITY_EXPIRED", "accepted", Suspended)
    /\ AssertTransition(d, Suspended, "EXPLICIT_REAUTHORIZATION", "accepted", ActiveB)
    /\ AssertTransition(d, Suspended, "REOPEN_CUT_PREDECESSOR", "rejected", NoTarget)

\* Mutant: a generation is compared with the initial one.
GenerationNeverBelowInitial(d) ==
    \A i \in AcceptedRows(d) :
        Number(d, d.transitions[i].target) >= Number(d, d.initialState)

GenerationMonotonic(d) ==
    \A i \in AcceptedRows(d) :
        Number(d, d.transitions[i].target) >= Number(d, d.transitions[i].source)

GenerationAdvancingEvents ==
    {"VERIFIED_REVOCATION", "AUTHORITY_EXPIRED", "EXPLICIT_REAUTHORIZATION"}

GenerationAdvances(d) ==
    \A i \in AcceptedRows(d) :
        d.transitions[i].event \in GenerationAdvancingEvents
            => Number(d, d.transitions[i].target) = Number(d, d.transitions[i].source) + 1

InertCategories == {"opaque-evidence", "stale-command"}

InertInputsRefused(d) ==
    \A i \in DOMAIN d.transitions :
        d.events[d.transitions[i].event] \in InertCategories
            => /\ d.transitions[i].disposition # "accepted"
               /\ ~d.transitions[i].authorityMutation

AssertRunAuthoritySemantics(d) ==
    /\ RequiredAuthorityTransitions(d)
    /\ GenerationMonotonic(d)
    /\ GenerationAdvances(d)
    /\ InertInputsRefused(d)

StatusesInOrder(d) ==
    [i \in DOMAIN d.states |-> d.states[i].status] = <<"OPEN", "RETIRED">>

OnlyRetirementAccepted(d) ==
    /\ Cardinality(AcceptedRows(d)) = 1
    /\ \A i \in AcceptedRows(d) :
        /\ d.transitions[i].source = Open
        /\ d.transitions[i].event = "COMMIT_RETIREMENT"
        /\ d.transitions[i].target = Retired

AssertProjectSemantics(d) ==
    /\ StatusesInOrder(d)
    /\ AssertTransition(d, Open, "COMMIT_RETIREMENT", "accepted", Retired)
    /\ AssertTransition(d, Open, "CANCEL_RETIREMENT", "ignored", NoTarget)
    /\ AssertTransition(d, Retired, "REOPEN_PROJECT", "rejected", NoTarget)
    /\ AssertTransition(d, Retired, "FRESH_EXTERNAL_AUTHORIZATION", "rejected", NoTarget)
    /\ OnlyRetirementAccepted(d)
    /\ Number(d, Retired) > Number(d, Open)
    /\ InertInputsRefused(d)

IsRunAuthority(d) == d.id = "orchestrator.run-authority-state"
IsProjectLifecycle(d) == d.id = "orchestrator.orchestration-project-lifecycle"

AssertOwnedSemantics(d) ==
    /\ AssertGenericSemantics(d)
    /\ \/ IsRunAuthority(d) /\ AssertRunAuthoritySemantics(d)
       \/ IsProjectLifecycle(d) /\ AssertProjectSemantics(d)

-----------------------------------------------------------------------------
\* Whatever an editor left in the file.
Init ==
    /\ document \in Documents
    /\ machine = NoMachine
    /\ state = NoTarget

\* A document that passes is derived; the machine starts in its initial state.
DeriveMachine ==
    /\ machine = NoMachine
    /\ AssertOwnedSemantics(document)
    /\ machine' = document
    /\ state' = document.initialState
    /\ UNCHANGED document

\* A document that fails an assertion stays in the file and yields no machine.
ApplyMachineEvent(event) ==
    /\ machine # NoMachine
    /\ state' = After(machine, state, event)
    /\ UNCHANGED <<document, machine>>

AnyEvent == IF machine = NoMachine THEN {} ELSE DOMAIN machine.events \cup {UndeclaredEvent}

Next == DeriveMachine \/ \E event \in AnyEvent : ApplyMachineEvent(event)

Spec == Init /\ [][Next]_vars

-----------------------------------------------------------------------------
\* Types, with one fact that is not a type: the machine is always in a state
\* its document declares, whatever events it was sent (property.test.mjs,
\* "arbitrary event sequences never invent a state").
TypeOK ==
    /\ WellFormed(document)
    /\ machine \in {document, NoMachine}
    /\ IF machine = NoMachine THEN state = NoTarget ELSE state \in StateIds(machine)

Running == machine # NoMachine
RunsAuthority == Running /\ IsRunAuthority(machine)
RunsProject == Running /\ IsProjectLifecycle(machine)

\* A terminal state absorbs every later input, declared or not.
TerminalAbsorbs == [][Running /\ Terminal(machine, state) => state' = state]_vars

\* The generation of a run's authority and the deletion epoch of a project
\* never decrease, on any path through any machine that was let through.
NumberNeverDecreases ==
    [][Running => Number(machine', state') >= Number(machine, state)]_vars

\* Suspension and reauthorization advance the generation exactly once when
\* they change the authority at all.
AuthorityAdvancesByOne ==
    RunsAuthority =>
        \A event \in GenerationAdvancingEvents :
            LET next == After(machine, state, event)
            IN next # state => Number(machine, next) = Number(machine, state) + 1

\* Late opaque evidence and stale commands never move a machine.
InertInputs ==
    Running =>
        \A event \in DOMAIN machine.events :
            machine.events[event] \in InertCategories => After(machine, state, event) = state

\* Revocation and expiry cut the first authority: no document the checks pass
\* yields a machine on which they are ineffective.  The checks read the first
\* matching transition and the machine obeys the last.
RevocationSuspends ==
    RunsAuthority /\ state = ActiveA =>
        /\ After(machine, state, "VERIFIED_REVOCATION") = Suspended
        /\ After(machine, state, "AUTHORITY_EXPIRED") = Suspended

\* Once a run was suspended, no sequence of events brings the cut authority
\* back (invariant run-predecessor-never-reopens of the document).
PredecessorNeverReopens ==
    [](RunsAuthority /\ state = Suspended => [](state # ActiveA))

\* A project is retired by the commit of its retirement alone.
RetiredOnlyByCommit ==
    RunsProject /\ state # Retired =>
        \A event \in AnyEvent :
            After(machine, state, event) = Retired => event = "COMMIT_RETIREMENT"

\* What the document itself says is enforced (run-direct-active-replacement-
\* forbidden): "ACTIVE basis A cannot transition directly to ACTIVE basis B."
DirectReplacementForbidden ==
    [][RunsAuthority /\ state = ActiveA => state' # ActiveB]_vars

=============================================================================
