-------------------------- MODULE MCExecutableSpecs --------------------------
\* Every document one edit away from a shipped one: a transition replaced,
\* appended or removed, a state's number or status changed, a state declared
\* twice, an event put into another category, another initial state, a terminal
\* flag flipped; and an edit of a transition together with a flipped flag or
\* a trace removed.
EXTENDS ExecutableSpecs, SequencesExt

Nowhere == "undeclared-state"

RowsOf(d) ==
    LET Sources == StateIds(d)
        Events == DOMAIN d.events
    IN {Accepted(s, e, t) : s \in Sources, e \in Events, t \in Sources \cup {Nowhere}}
        \cup {Rejected(s, e) : s \in Sources, e \in Events}
        \cup {Ignored(s, e) : s \in Sources, e \in Events}
        \cup {Rejected(CHOOSE s \in Sources : TRUE, UndeclaredEvent)}

SameKey(r, q) == r.source = q.source /\ r.event = q.event

TransitionEdits(d) ==
    {[d EXCEPT !.transitions = Append(d.transitions, r)] : r \in RowsOf(d)}
        \cup {[d EXCEPT !.transitions = RemoveAt(d.transitions, i)] :
                i \in DOMAIN d.transitions}
        \cup UNION {{[d EXCEPT !.transitions[i] = r] :
                r \in {q \in RowsOf(d) : SameKey(q, d.transitions[i])}} :
                i \in DOMAIN d.transitions}

StateEdits(d) ==
    {[d EXCEPT !.states[i].number = n] : i \in DOMAIN d.states, n \in 0..4}
        \cup {[d EXCEPT !.states[i].status = s] : i \in DOMAIN d.states, s \in d.statuses}
        \cup {[d EXCEPT !.states = Append(d.states, [d.states[i] EXCEPT !.number = n])] :
                i \in DOMAIN d.states, n \in d.numbers}

OtherEdits(d) ==
    {[d EXCEPT !.events[e] = c] : e \in DOMAIN d.events, c \in InertCategories}
        \cup {[d EXCEPT !.initialState = s] : s \in StateIds(d) \cup {Nowhere}}

FlagEdits(d) == {[d EXCEPT !.states[i].terminal = ~@] : i \in DOMAIN d.states}

TraceEdits(d) == {[d EXCEPT !.traces = RemoveAt(@, i)] : i \in DOMAIN d.traces}

Edits(d) ==
    {d} \cup TransitionEdits(d) \cup StateEdits(d) \cup OtherEdits(d) \cup FlagEdits(d)
        \cup UNION {TransitionEdits(e) : e \in FlagEdits(d) \cup TraceEdits(d)}

EditedDocuments == Edits(RunAuthority) \cup Edits(ProjectLifecycle)

\* Only transitions are edited: the states keep their names' meaning.
TransitionsEdited == TransitionEdits(RunAuthority)

=============================================================================
