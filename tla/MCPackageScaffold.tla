--------------------------- MODULE MCPackageScaffold ---------------------------
(* Two processes, a context that may be deferred and a platform package.   *)
EXTENDS PackageScaffold

WorkCoordination == "context.work-coordination"
Host == "platform.local-host-control"

Entry(role, path, name, owner) ==
    [role |-> role, path |-> path, name |-> name, owner |-> owner]

Catalog ==
    [id \in {WorkCoordination, Host} |->
        IF id = WorkCoordination
        THEN Entry("bounded-context", "contexts", "work-coordination", "domain.contexts.work-coordination")
        ELSE Entry("platform", "platform", "local-host-control", "architecture.local-host-lifecycle")]
MCCatalogs ==
    {Catalog, [Catalog EXCEPT ![WorkCoordination].path = "moved"],
     [id \in {Host} |-> Catalog[Host]]}

Doc(type, status, rev) == [type |-> type, status |-> status, resolved_by |-> "none", revision |-> rev]
Docs(status, rev) ==
    [id \in {"domain.contexts.work-coordination", "architecture.local-host-lifecycle", "OD-021"} |->
        IF id = "OD-021" THEN Doc("open-decision", "open", 0)
        ELSE IF id = "architecture.local-host-lifecycle" THEN Doc("architecture", "accepted", 0)
        ELSE Doc("bounded-context", status, rev)]
MCDocuments == {Docs("accepted", 0), Docs("accepted", 1), Docs("proposed", 0)}

DeferEntry == [package_id |-> WorkCoordination, state |-> "deferred", blocked_by |-> {"OD-021"},
               decision |-> NoDecision]
MCPolicies == {<<>>, <<DeferEntry>>, <<DeferEntry, DeferEntry>>}

Config(rev) == [composition |-> "library", roles |-> {"bounded-context", "platform"}, revision |-> rev]
MCConfigs == {Config(0), Config(1)}

\* The working copy a command is first given.
MCInit ==
    /\ Init
    /\ catalog = Catalog /\ docs = Docs("accepted", 0) /\ config = Config(0)

MCSpec == MCInit /\ [][Next]_vars
=============================================================================
