-------------------------- MODULE AuthorityDocuments --------------------------
(***************************************************************************)
(* The two executable specifications as they are shipped: the authority of *)
(* a run, and the identity of an orchestration project.  A state is        *)
(* described by its status and a number, the generation of the authority   *)
(* or the deletion epoch of the project.                                   *)
(***************************************************************************)
EXTENDS Naturals, Sequences, TLC

State(id, status, number, terminal) ==
    [id |-> id, status |-> status, number |-> number, terminal |-> terminal]

NoTarget == "none"

Accepted(source, event, target) ==
    [source |-> source, event |-> event, disposition |-> "accepted",
     target |-> target, authorityMutation |-> TRUE]

Inert(source, event, disposition) ==
    [source |-> source, event |-> event, disposition |-> disposition,
     target |-> NoTarget, authorityMutation |-> FALSE]

Rejected(source, event) == Inert(source, event, "rejected")
Ignored(source, event) == Inert(source, event, "ignored")

Fault(source, event, disposition) ==
    [source |-> source, event |-> event, expectedState |-> source,
     expectedDisposition |-> disposition]

-----------------------------------------------------------------------------
ActiveA == "active-generation-1-basis-a"
Suspended == "suspended-generation-2"
ActiveB == "active-generation-3-basis-b"
CancelledBy(generation) ==
    <<"cancelled-generation-1", "cancelled-generation-2", "cancelled-generation-3">>[generation]

RunAuthorityStates ==
    <<State(ActiveA, "ACTIVE", 1, FALSE), State(Suspended, "SUSPENDED", 2, FALSE),
      State(ActiveB, "ACTIVE", 3, FALSE), State(CancelledBy(1), "CANCELLED", 1, TRUE),
      State(CancelledBy(2), "CANCELLED", 2, TRUE), State(CancelledBy(3), "CANCELLED", 3, TRUE)>>

RunAuthorityEvents ==
    "VERIFIED_REVOCATION" :> "authority-mutation"
    @@ "AUTHORITY_EXPIRED" :> "authority-mutation"
    @@ "EXPLICIT_REAUTHORIZATION" :> "authority-mutation"
    @@ "BUSINESS_CANCEL" :> "business-cancellation"
    @@ "STALE_GENERATION_COMMAND" :> "stale-command"
    @@ "LATE_OPAQUE_AR_EVIDENCE" :> "opaque-evidence"
    @@ "REOPEN_CUT_PREDECESSOR" :> "forbidden"

RunAuthorityTransitions ==
    <<Accepted(ActiveA, "VERIFIED_REVOCATION", Suspended),
      Accepted(ActiveA, "AUTHORITY_EXPIRED", Suspended),
      Rejected(ActiveA, "EXPLICIT_REAUTHORIZATION"),
      Accepted(Suspended, "EXPLICIT_REAUTHORIZATION", ActiveB),
      Accepted(ActiveA, "BUSINESS_CANCEL", CancelledBy(1)),
      Accepted(Suspended, "BUSINESS_CANCEL", CancelledBy(2)),
      Accepted(ActiveB, "BUSINESS_CANCEL", CancelledBy(3)),
      Rejected(ActiveA, "STALE_GENERATION_COMMAND"),
      Rejected(Suspended, "STALE_GENERATION_COMMAND"),
      Rejected(ActiveB, "STALE_GENERATION_COMMAND"),
      Ignored(ActiveA, "LATE_OPAQUE_AR_EVIDENCE"),
      Ignored(Suspended, "LATE_OPAQUE_AR_EVIDENCE"),
      Ignored(ActiveB, "LATE_OPAQUE_AR_EVIDENCE"),
      Rejected(Suspended, "REOPEN_CUT_PREDECESSOR"),
      Rejected(CancelledBy(1), "STALE_GENERATION_COMMAND"),
      Ignored(CancelledBy(1), "LATE_OPAQUE_AR_EVIDENCE"),
      Rejected(CancelledBy(2), "STALE_GENERATION_COMMAND"),
      Ignored(CancelledBy(2), "LATE_OPAQUE_AR_EVIDENCE"),
      Rejected(CancelledBy(3), "STALE_GENERATION_COMMAND"),
      Ignored(CancelledBy(3), "LATE_OPAQUE_AR_EVIDENCE")>>

\* Each trace is a sequence of <<event, expected state>>.
RunAuthorityTraces ==
    << <<<<"VERIFIED_REVOCATION", Suspended>>, <<"EXPLICIT_REAUTHORIZATION", ActiveB>>,
         <<"BUSINESS_CANCEL", CancelledBy(3)>>,
         <<"LATE_OPAQUE_AR_EVIDENCE", CancelledBy(3)>>>>,
       <<<<"AUTHORITY_EXPIRED", Suspended>>, <<"EXPLICIT_REAUTHORIZATION", ActiveB>>>>,
       <<<<"EXPLICIT_REAUTHORIZATION", ActiveA>>>> >>

RunAuthorityFaults ==
    <<Fault(ActiveA, "EXPLICIT_REAUTHORIZATION", "rejected"),
      Fault(Suspended, "STALE_GENERATION_COMMAND", "rejected"),
      Fault(CancelledBy(3), "LATE_OPAQUE_AR_EVIDENCE", "ignored"),
      Fault(Suspended, "REOPEN_CUT_PREDECESSOR", "rejected")>>

RunAuthority ==
    [id |-> "orchestrator.run-authority-state", initialState |-> ActiveA,
     statuses |-> {"ACTIVE", "SUSPENDED", "CANCELLED"}, numbers |-> 1..3,
     states |-> RunAuthorityStates, events |-> RunAuthorityEvents,
     transitions |-> RunAuthorityTransitions,
     traces |-> RunAuthorityTraces, faultCases |-> RunAuthorityFaults]

-----------------------------------------------------------------------------
Open == "open-epoch-1"
Retired == "retired-epoch-2"

ProjectStates == <<State(Open, "OPEN", 1, FALSE), State(Retired, "RETIRED", 2, TRUE)>>

ProjectEvents ==
    "COMMIT_RETIREMENT" :> "authority-mutation"
    @@ "CANCEL_RETIREMENT" :> "business-cancellation"
    @@ "REOPEN_PROJECT" :> "forbidden"
    @@ "STALE_DELETION_EPOCH_COMMAND" :> "stale-command"
    @@ "LATE_OPAQUE_AR_EVIDENCE" :> "opaque-evidence"
    @@ "FRESH_EXTERNAL_AUTHORIZATION" :> "forbidden"

ProjectTransitions ==
    <<Accepted(Open, "COMMIT_RETIREMENT", Retired),
      Ignored(Open, "CANCEL_RETIREMENT"),
      Rejected(Retired, "CANCEL_RETIREMENT"),
      Rejected(Retired, "REOPEN_PROJECT"),
      Rejected(Open, "STALE_DELETION_EPOCH_COMMAND"),
      Rejected(Retired, "STALE_DELETION_EPOCH_COMMAND"),
      Ignored(Open, "LATE_OPAQUE_AR_EVIDENCE"),
      Ignored(Retired, "LATE_OPAQUE_AR_EVIDENCE"),
      Rejected(Retired, "FRESH_EXTERNAL_AUTHORIZATION")>>

ProjectTraces ==
    << <<<<"CANCEL_RETIREMENT", Open>>, <<"COMMIT_RETIREMENT", Retired>>>>,
       <<<<"COMMIT_RETIREMENT", Retired>>, <<"LATE_OPAQUE_AR_EVIDENCE", Retired>>,
         <<"FRESH_EXTERNAL_AUTHORIZATION", Retired>>, <<"REOPEN_PROJECT", Retired>>>>,
       <<<<"STALE_DELETION_EPOCH_COMMAND", Open>>, <<"COMMIT_RETIREMENT", Retired>>,
         <<"STALE_DELETION_EPOCH_COMMAND", Retired>>>> >>

ProjectFaults ==
    <<Fault(Retired, "REOPEN_PROJECT", "rejected"),
      Fault(Retired, "FRESH_EXTERNAL_AUTHORIZATION", "rejected"),
      Fault(Retired, "LATE_OPAQUE_AR_EVIDENCE", "ignored"),
      Fault(Retired, "STALE_DELETION_EPOCH_COMMAND", "rejected")>>

ProjectLifecycle ==
    [id |-> "orchestrator.orchestration-project-lifecycle", initialState |-> Open,
     statuses |-> {"OPEN", "RETIRED"}, numbers |-> 1..2,
     states |-> ProjectStates, events |-> ProjectEvents,
     transitions |-> ProjectTransitions,
     traces |-> ProjectTraces, faultCases |-> ProjectFaults]

=============================================================================
