--------------------------- MODULE RepositoryFixture ---------------------------
(***************************************************************************)
(* The working trees the conformance scripts build                         *)
(* (tooling/architecture-conformance/scripts), one after the other in one  *)
(* temporary repository, each with the documents validate-docs asks for,   *)
(* the decisions and the policy of this repository that concern the        *)
(* packages of a local host, and the reliability catalog of the tests.     *)
(* PackageTopology, DependencySpecifiers, ReliabilityCatalog and           *)
(* DocumentRules say what the fields are; `revision' of a document and of  *)
(* a source stands for the text they have besides.                         *)
(***************************************************************************)
EXTENDS Naturals, Sequences, TLC

Context == <<"packages", "contexts", "work-coordination">>
Platform == <<"packages", "platform", "test">>
App == <<"apps", "test">>
ContextName == "@agent-teams/work-coordination"
PlatformName == "@agent-teams/platform-test"
Dossier == "domain.contexts.work-coordination"
PlatformOwner == "architecture.platform-test"

-----------------------------------------------------------------------------
(* Packages.                                                               *)

Conditions == [form |-> "conditions", types |-> "declaration", import |-> "esm"]
LibraryExports(additional) == (<<>> :> Conditions) @@ additional
NoMore == [key \in {} |-> Conditions]
ModuleExport == LibraryExports(<<"module">> :> Conditions)

Source(at, imports) ==
    [at |-> at, kind |-> "source", imports |-> imports, broken |-> FALSE,
     dynamic |-> FALSE, revision |-> 0]
Import(kind, name, to) == [kind |-> kind, name |-> name, to |-> to]

Dependency(name, internal, section, range, catalog) ==
    [name |-> name, internal |-> internal, section |-> section, range |-> range,
     catalog |-> catalog]
OnContext == Dependency(ContextName, TRUE, "dependencies", "workspace", "none")

PackageManifest(name, role, owner, exports, deps) ==
    [state |-> "read", name |-> name, private |-> TRUE, type |-> "module", role |-> role,
     ownerDocument |-> owner, exports |-> exports, deps |-> deps, imports |-> {},
     scripts |-> {"build", "check", "clean", "prepack", "test", "typecheck"},
     files |-> {"dist"}]
Package(manifest, sources) ==
    [manifest |-> manifest, tsconfig |-> "plain", sources |-> sources, tests |-> {}]

FeatureIndex(feature, imports) == Source(<<"features", feature, "index">>, imports)

ContextPackage ==
    Package(PackageManifest(ContextName, "bounded-context", Dossier,
                     LibraryExports(NoMore), {}),
            {Source(<<"index">>, {}), FeatureIndex("task-model", {})})

TaskReference ==
    Import("relative", "", Context \o <<"src", "features", "task-model", "domain", "internal-api">>)
FeatureSources ==
    {Source(<<"features", "task-model", "domain", "task-reference">>, {}),
     Source(<<"features", "task-model", "domain", "internal-api">>,
            {Import("relative", "",
                    Context \o <<"src", "features", "task-model", "domain", "task-reference">>)}),
     Source(<<"features", "dependency-model", "domain", "task-dependency">>, {TaskReference})}
FeatureEdge(from, to, imports) ==
    [package |-> "context.work-coordination", from |-> from, to |-> to, imports |-> imports]
DomainEdge == FeatureEdge("dependency-model", "task-model", {"domain"})

ExportedModule == Import("package", ContextName, <<"module">>)
AppPackage ==
    Package(PackageManifest("@agent-teams/app-test", "app", PlatformOwner, NoMore, {OnContext}),
            {FeatureIndex("launch", {ExportedModule})})
PlatformPackage ==
    Package(PackageManifest(PlatformName, "platform", PlatformOwner,
                     LibraryExports(NoMore), {}),
            {FeatureIndex("test-capability", {})})

Entry(id, role, path, name, owner) ==
    [id |-> id, role |-> role, path |-> path, package_name |-> name, owner_document |-> owner]
Catalog ==
    {Entry("context.work-coordination", "bounded-context", Context, ContextName, Dossier),
     Entry("platform.test", "platform", Platform, PlatformName, PlatformOwner),
     Entry("app.test", "app", App, "@agent-teams/app-test", PlatformOwner),
     Entry("app.local-supervisor", "app", <<"apps", "local-supervisor">>,
           "@agent-teams/app-local-supervisor", "ADR-0060"),
     Entry("app.orchestrator-local", "app", <<"apps", "orchestrator-local">>,
           "@agent-teams/app-orchestrator-local", "ADR-0030"),
     Entry("sdk.orchestrator-local-host", "sdk", <<"packages", "sdk", "orchestrator-local-host">>,
           "@agent-teams/orchestrator-local-host", "ADR-0086")}

Edge(from, to, imports) == [from |-> from, to |-> to, imports |-> imports]
AppEdge == Edge("app.test", "context.work-coordination", {<<"module">>})

Reference(path, form) == [path |-> path, form |-> form]

Gate(id, state, blockers, decision) ==
    [package_id |-> id, state |-> state, blocked_by |-> blockers, decision |-> decision]
LocalGates(state, decision) ==
    LET gate(id) == Gate(id, state, {"OD-021", "OD-035", "OD-040"}, decision) IN
    <<gate("app.local-supervisor"), gate("app.orchestrator-local"),
      gate("sdk.orchestrator-local-host")>>

Workspace ==
    [mode |-> "strict",
     patterns |-> {[prefix |-> <<"apps">>, depth |-> "any", negated |-> FALSE],
                   [prefix |-> <<"packages">>, depth |-> "any", negated |-> FALSE]},
     catalogs |-> [default |-> ("external-one" :> "exact"),
                   compatibility |-> ("external-tool" :> "exact")]]
Tooling == {"@agent-teams/engineering-foundation", "@agent-teams/docs-protocol"}

-----------------------------------------------------------------------------
(* Documents.                                                              *)

Document(type, status, at, file) ==
    [type |-> type, status |-> status, owner |-> "architecture", at |-> at, file |-> file,
     fileId |-> "", number |-> 0, approval |-> {}, titled |-> TRUE, blocked_by |-> {},
     related |-> {}, supersedes |-> {}, superseded_by |-> {}, resolved_by |-> "null",
     sections |-> ("" :> {}), rows |-> {}, anchors |-> <<>>, revision |-> 0]

Headed(d, headings) == [d EXCEPT !.sections = [h \in headings \union {""} |-> {}]]

Adr(id, number, status) ==
    [Headed(Document("adr", status, <<"docs", "decisions">>, id),
            {"context", "decision", "consequences", "rejected alternatives"})
        EXCEPT !.fileId = id, !.number = number,
               !.approval = IF status # "proposed" /\ number > 33
                            THEN {"approved_by", "accepted_at"} ELSE {}]
Adrs ==
    ("ADR-0030" :> Adr("ADR-0030", 30, "accepted")) @@
    ("ADR-0060" :> Adr("ADR-0060", 60, "accepted")) @@
    ("ADR-0086" :> Adr("ADR-0086", 86, "accepted")) @@
    ("ADR-0093" :> Adr("ADR-0093", 93, "accepted")) @@
    ("ADR-0099" :> Adr("ADR-0099", 99, "proposed")) @@
    ("ADR-0116" :> Adr("ADR-0116", 116, "accepted"))

Open(id) ==
    [Headed(Document("open-decision", "open", <<"docs", "open-decisions">>, id),
            {"resolution", "decision required"}) EXCEPT !.fileId = id]
Resolved(d, adr) ==
    [d EXCEPT !.status = "resolved", !.resolved_by = adr, !.related = @ \union {adr},
              !.blocked_by = {}]
OpenIds == {"OD-001", "OD-003", "OD-004", "OD-009", "OD-012", "OD-021", "OD-037", "OD-038", "OD-039"}
OpenDecisions ==
    [id \in OpenIds |-> Open(id)] @@
    ("OD-035" :> Resolved(Open("OD-035"), "ADR-0116")) @@
    ("OD-040" :> [Open("OD-040") EXCEPT !.blocked_by = {"OD-021"}, !.related = {"OD-021"}])

ContextHeadings ==
    {"domain vision", "scope", "ubiquitous language", "invariants and business rules",
     "aggregates and consistency boundaries", "concurrency and conflict model",
     "context relationships", "verification scenarios"}
DossierOf(status) ==
    Headed(Document("bounded-context", status,
                    <<"docs", "domain", "contexts", "work-coordination">>, "README"),
           ContextHeadings)
\* The owner of the platform is the one a change of its code has to touch.
OwnerOfPlatform ==
    [Document("architecture", "accepted", <<"docs", "architecture">>, "platform-test")
        EXCEPT !.anchors = <<[pattern |-> <<"architecture", "source-dependency-policy">>,
                              form |-> "relative", enforcement |-> "required"],
                             [pattern |-> <<"architecture", "package-catalog">>,
                              form |-> "relative", enforcement |-> "advisory"]>>]

FeatureReadme(path, feature, owner) ==
    [Headed(Document("feature", "accepted", path \o <<"src", "features", feature>>, "README"),
            {"scope", "public surface", "verification"}) EXCEPT !.related = {owner}]
Features(names) ==
    [id \in names |->
        CASE id = "task-model" -> FeatureReadme(Context, id, Dossier)
          [] id = "dependency-model" -> FeatureReadme(Context, id, Dossier)
          [] id = "launch" -> FeatureReadme(App, id, PlatformOwner)
          [] id = "test-capability" -> FeatureReadme(Platform, id, PlatformOwner)
          [] id = "local-supervisor" -> FeatureReadme(<<"apps", "local-supervisor">>, id, "ADR-0060")]

LinkTo(d) == <<Append(d.at, d.file), "">>
Row(id, d) ==
    [to |-> Append(d.at, d.file),
     cells |-> ("id" :> id) @@ ("owner" :> d.owner) @@ ("primary gate" :> d.blocked_by) @@
               ("status" :> IF d.status = "resolved"
                            THEN <<"resolved by", d.resolved_by>> ELSE <<d.status>>)]
IndexAt(at, links) ==
    [Document("index", "active", at, "README") EXCEPT !.sections = ("" :> links)]
ToDirectories(at, names) == {<<at \o <<name, "README">>, "">> : name \in names}

\* The indexes list what there is: they are written with every change.
WithIndexes(docs, colocated) ==
    LET listed(ids) == {LinkTo(docs[id]) : id \in ids}
        adrs(status) == listed({id \in DOMAIN docs :
                                    docs[id].type = "adr" /\ docs[id].status = status})
        decisions == {id \in DOMAIN docs : docs[id].type = "open-decision"}
        contexts == <<"docs", "domain", "contexts">>
        indexes ==
          ("docs" :> IndexAt(<<"docs">>,
                ToDirectories(<<"docs">>, {"architecture", "decisions", "domain", "open-decisions"})
                \union {LinkTo(colocated[id]) : id \in DOMAIN colocated}
                \union listed({id \in DOMAIN docs : docs[id].type = "contract"}))) @@
          ("docs.decisions" :>
              [IndexAt(<<"docs", "decisions">>, {}) EXCEPT !.sections =
                  ("" :> {}) @@ ("accepted decisions" :> adrs("accepted"))
                  @@ ("proposed decisions" :> adrs("proposed"))]) @@
          ("docs.open-decisions" :>
              [IndexAt(<<"docs", "open-decisions">>, listed(decisions))
                  EXCEPT !.rows = {Row(id, docs[id]) : id \in decisions}]) @@
          ("docs.domain" :> IndexAt(<<"docs", "domain">>,
                                    ToDirectories(<<"docs", "domain">>, {"contexts"}))) @@
          ("docs.contexts" :> IndexAt(contexts, ToDirectories(contexts, {"work-coordination"}))) @@
          ("docs.architecture" :> IndexAt(<<"docs", "architecture">>, listed({PlatformOwner})))
    IN  indexes @@ docs

Documents(status) ==
    Adrs @@ OpenDecisions @@ (Dossier :> DossierOf(status)) @@ (PlatformOwner :> OwnerOfPlatform)

-----------------------------------------------------------------------------
(* The reliability catalog.                                                *)

Item(id, qualification, blockers) ==
    [id |-> id, qualification |-> qualification, blockedBy |-> blockers,
     decisionRefs |-> {}, conformanceRefs |-> {}]
ProfileItem(id, qualification, scope, product, commercial, capability, blockers) ==
    [releaseScope |-> scope, product |-> product, commercial |-> commercial,
     requiredCapabilities |-> {capability}] @@ Item(id, qualification, blockers)
CapabilityItem(id, profiles, blockers) ==
    [profiles |-> profiles] @@ Item(id, "blocked", blockers)

Servers == {"connected-self-hosted", "managed-saas", "standalone-self-hosted"}
Reliability ==
    [framework |-> Item("deployment-qualification", "blocked", {"OD-039"}),
     profiles |->
        <<ProfileItem("managed-saas", "blocked", "v1-target", "managed-platform",
                      "optional-managed-platform", "server-runtime-execution",
                      {"OD-003", "OD-012"}),
          ProfileItem("standalone-self-hosted", "blocked", "v1-target", "standalone", "none",
                      "server-runtime-execution", {"OD-003", "OD-012"}),
          ProfileItem("connected-self-hosted", "deferred", "future", "standalone",
                      "optional-managed-platform", "server-runtime-execution",
                      {"OD-003", "OD-012"}),
          ProfileItem("fully-local", "blocked", "v1-target", "local-standalone", "none",
                      "local-host-runtime-execution", {"OD-001", "OD-003", "OD-009", "OD-021"})>>,
     capabilities |->
        <<CapabilityItem("server-runtime-execution", Servers, {"OD-004"}),
          CapabilityItem("local-host-runtime-execution", {"fully-local"}, {"OD-004", "OD-021"}),
          CapabilityItem("local-device-execution", Servers, {"OD-038"}),
          CapabilityItem("managed-commercial-entitlements",
                         {"connected-self-hosted", "managed-saas"}, {"OD-037"})>>,
     prohibited |->
        {"agent.id", "operation.id", "project.id", "run.id", "runtime.session.id", "span.id",
         "team.id", "tenant.id", "trace.id", "url.full", "url.path", "user.id",
         "workspace.path"},
     attributes |-> <<[id |-> "deployment.profile", maxDistinct |-> 4]>>,
     indicators |-> << >>, invariants |-> << >>, budgets |-> << >>]
Indicator(status, attributes, objective) ==
    [id |-> "orchestrator.indicator", local |-> TRUE, owner |-> "platform/control-api",
     status |-> status, allowedAttributes |-> attributes, objective |-> objective,
     profiles |-> {"fully-local"}]

-----------------------------------------------------------------------------
(* Trees.                                                                  *)

Tree(status, packages, features, featureEdges, references) ==
    LET colocated == Features(features) IN
    [catalog |-> Catalog, policy |-> LocalGates("deferred", "null"),
     edges |-> {AppEdge}, featureEdges |-> featureEdges,
     packages |-> packages, references |-> references,
     docs |-> WithIndexes(Documents(status), colocated), colocated |-> colocated,
     rootLinks |-> {<<<<"docs", "README">>, "">>},
     workspace |-> Workspace, tooling |-> Tooling,
     root |-> [state |-> "read", name |-> "@agent-teams/test-root",
               deps |-> {Dependency("external-one", FALSE, "devDependencies", "catalog", "default")}],
     reliability |-> Reliability, owners |-> {"platform/control-api"}, evidence |-> {}]

\* A catalog whose only context is proposed, and no package.
Reserved == Tree("proposed", << >>, {}, {}, << >>)

Plain(path) == Reference(path, "plain")
OfContext == Context :> ContextPackage
Scaffolded ==
    Tree("accepted", OfContext, {"task-model"}, {}, <<Plain(Context)>>)
Featured ==
    Tree("accepted",
         Context :> [ContextPackage EXCEPT !.sources = @ \union FeatureSources],
         {"task-model", "dependency-model"}, {DomainEdge}, <<Plain(Context)>>)
WithModule ==
    [ContextPackage EXCEPT !.manifest.exports = ModuleExport,
                           !.sources = @ \union {Source(<<"module">>, {})}]
Composed ==
    Tree("accepted", (Context :> WithModule) @@ (App :> AppPackage),
         {"task-model", "launch"}, {}, <<Plain(Context), Plain(App)>>)
Platformed ==
    Tree("accepted",
         (Context :> WithModule) @@ (App :> AppPackage) @@ (Platform :> PlatformPackage),
         {"task-model", "launch", "test-capability"}, {},
         <<Plain(Context), Plain(App), Plain(Platform)>>)

FixtureStages ==
    [reserved |-> Reserved, context |-> Scaffolded, feature |-> Featured,
     app |-> Composed, platform |-> Platformed]
=============================================================================
