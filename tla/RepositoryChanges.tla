--------------------------- MODULE RepositoryChanges ---------------------------
(***************************************************************************)
(* The changes the conformance scripts and the tests make to their trees,  *)
(* by the name they give them, and the verdict each expects: of            *)
(* "topology", "specifiers", "documents", "reliability" or "impact".  The  *)
(* last changes are those of the decisions of this repository, which no    *)
(* script makes: what it takes to settle one, or to open a local package.  *)
(***************************************************************************)
EXTENDS RepositoryFixture, FiniteSets

Verdict(judge, stage, accepted, names) ==
    [judge : {judge}, stage : {stage}, accepted : {accepted}, name : names]

-----------------------------------------------------------------------------
(* The manifest of the context.                                            *)

Exported(types, import) ==
    <<>> :> [form |-> "conditions", types |-> types, import |-> import]
ExportChanges ==
    ("invalid declaration export" :> Exported("esm", "esm")) @@
    ("no declaration export" :> Exported("none", "esm")) @@
    ("invalid ESM export" :> Exported("declaration", "declaration")) @@
    ("no ESM export" :> Exported("declaration", "none")) @@
    ("subpath without declaration" :>
        LibraryExports(<<"module">> :>
            [form |-> "conditions", types |-> "none", import |-> "esm"])) @@
    ("source-only export" :>
        (<<>> :> [form |-> "string", types |-> "none", import |-> "other"])) @@
    ("encoded dot segment" :> Exported("declaration", "other")) @@
    ("export of generated code" :> LibraryExports(<<"generated">> :> Conditions))

ManifestChange(name, m) ==
    CASE name \in DOMAIN ExportChanges -> [m EXCEPT !.exports = ExportChanges[name]]
      [] name = "no test script" -> [m EXCEPT !.scripts = @ \ {"test"}]
      [] name = "no module type" -> [m EXCEPT !.type = ""]
      [] name = "no packed dist" -> [m EXCEPT !.files = {}]
      [] name = "wrong name" -> [m EXCEPT !.name = "@agent-teams/wrong-name"]
      [] name = "unknown internal dependency" ->
            [m EXCEPT !.deps = @ \union
                {Dependency("@agent-teams/unknown", TRUE, "dependencies", "workspace", "none")}]
ManifestChanges ==
    (DOMAIN ExportChanges) \union
    {"no test script", "no module type", "no packed dist", "wrong name",
     "unknown internal dependency"}

-----------------------------------------------------------------------------
(* The root references and the layout of the context.                      *)

ReferenceChanges ==
    ("trailing slash" :> <<Reference(Context, "slash")>>) @@
    ("explicit tsconfig" :> <<Reference(Context, "tsconfig")>>) @@
    ("absolute reference" :> <<Reference(<<"outside">>, "outside")>>) @@
    ("missing reference" :> << >>) @@
    ("duplicate reference" :> <<Reference(Context, "slash"), Reference(Context, "tsconfig")>>)

\* The sources a change adds to a package.
AddedSources ==
    ("unowned hidden source" :> [at |-> Context, source |-> Source(<<".unowned-hidden", "rogue">>, {})]) @@
    ("source outside features" :> [at |-> Context, source |-> Source(<<"rogue">>, {})]) @@
    ("app source outside features" :> [at |-> App, source |-> Source(<<"rogue">>, {})]) @@
    ("feature module" :>
        [at |-> Context, source |-> Source(<<"features", "dependency-model", "module">>, {})]) @@
    ("tests in a feature" :>
        [at |-> Context,
         source |-> [Source(<<"features", "dependency-model", "tests", "integration">>, {})
                        EXCEPT !.kind = "test"]]) @@
    ("adapter imports sibling" :>
        [at |-> Context,
         source |-> Source(<<"features", "dependency-model", "adapters", "inbound", "direct-sibling">>,
                           {TaskReference})])

\* t with the sources of the package at path changed by f.
WithSources(t, path, sources) == [t EXCEPT !.packages[path].sources = sources]

ContextChange(name, t) ==
    CASE name = "proposed dossier" ->
            [t EXCEPT !.docs = WithIndexes(Documents("proposed"), t.colocated)]
      [] name = "deferred context" ->
            [t EXCEPT !.policy = Append(@, Gate("context.work-coordination", "deferred",
                                                {"OD-003"}, "null"))]
      [] name = "removed package" -> [t EXCEPT !.packages = << >>]
      [] name = "package only" -> WithSources(t, Context, {Source(<<"index">>, {})})
      [] name = "undocumented feature" -> [t EXCEPT !.colocated = << >>]
      [] name = "proposed feature" -> [t EXCEPT !.colocated["task-model"].status = "proposed"]
      [] name = "detached unit tests" ->
            [t EXCEPT !.packages[Context].tests = {<<"tests", "unit", "task">>}]
      [] name = "uncataloged package" ->
            [t EXCEPT !.packages = @ @@ (<<"packages", "shared">> :> Package(
                PackageManifest("@agent-teams/shared", "platform", Dossier, NoMore, {}), {}))]
ContextChanges ==
    {"proposed dossier", "deferred context", "removed package", "package only",
     "undocumented feature", "proposed feature", "detached unit tests", "uncataloged package"}

-----------------------------------------------------------------------------
(* Features that import each other.                                        *)

FeatureImport(segments) ==
    {Import("relative", "", Context \o <<"src", "features", "task-model">> \o segments)}
\* The imports of dependency-model, and the edges declared for them.
FeatureChanges ==
    ("undeclared edge" :> [imports |-> {TaskReference}, edges |-> {}]) @@
    ("self-package import" :> [imports |-> {Import("package", ContextName, <<>>)},
                               edges |-> {DomainEdge}]) @@
    ("cross-feature deep import" :> [imports |-> FeatureImport(<<"domain", "task-reference">>),
                                     edges |-> {DomainEdge}]) @@
    ("domain imports application" :>
        [imports |-> FeatureImport(<<"application", "internal-api">>),
         edges |-> {FeatureEdge("dependency-model", "task-model", {"application"})}]) @@
    ("unused surface" :>
        [imports |-> {TaskReference},
         edges |-> {FeatureEdge("dependency-model", "task-model", {"application", "domain"})}]) @@
    ("feature cycle" :>
        [imports |-> {TaskReference},
         edges |-> {DomainEdge, FeatureEdge("task-model", "dependency-model", {"domain"})}]) @@
    ("import dropped, edge kept" :> [imports |-> {}, edges |-> {DomainEdge}])

DependencyDomain == <<"features", "dependency-model", "domain", "task-dependency">>
FeatureChange(name, t) ==
    [WithSources(t, Context,
        {IF s.at = DependencyDomain THEN Source(s.at, FeatureChanges[name].imports) ELSE s :
            s \in t.packages[Context].sources})
        EXCEPT !.featureEdges = FeatureChanges[name].edges]

-----------------------------------------------------------------------------
(* The imports of the app.                                                 *)

FromContext(to) == {Import("package", ContextName, to)}
LaunchImports ==
    ("deep source import" :> FromContext(<<"src", "features", "task-model">>)) @@
    ("private subpath" :> FromContext(<<"private">>)) @@
    ("cross-package relative import" :>
        {Import("relative", "", Context \o <<"src", "module">>)})

Wildcards ==
    ModuleExport @@ (<<"*">> :> Conditions)
    @@ (<<"blocked", "*">> :> [form |-> "null", types |-> "none", import |-> "none"])

LaunchIndex(imports, dynamic) ==
    [FeatureIndex("launch", imports) EXCEPT !.dynamic = dynamic]

AppChange(name, t) ==
    CASE name \in DOMAIN LaunchImports ->
            WithSources(t, App, {LaunchIndex(LaunchImports[name], FALSE)})
      [] name = "dynamic import" -> WithSources(t, App, {LaunchIndex({}, TRUE)})
      [] name = "undeclared dependency" -> [t EXCEPT !.packages[App].manifest.deps = {}]
      [] name = "undeclared dependency edge" -> [t EXCEPT !.edges = {}]
      [] name = "dependency cycle" ->
            [t EXCEPT !.edges = @ \union
                {Edge("context.work-coordination", "app.test", {<<"module">>})}]
      [] name = "blocked subpath" ->
            [WithSources(t, App, {LaunchIndex(FromContext(<<"blocked", "internal">>), FALSE)})
                EXCEPT !.packages[Context].manifest.exports = Wildcards,
                       !.edges = {Edge("app.test", "context.work-coordination",
                                       {<<"module">>, <<"blocked", "internal">>})}]
AppChanges ==
    (DOMAIN LaunchImports) \union
    {"dynamic import", "undeclared dependency", "undeclared dependency edge",
     "dependency cycle", "blocked subpath"}

\* The platform turns to the context, with or without all the declarations.
PlatformChange(name, t) ==
    LET dependent == [t EXCEPT !.packages[Platform].manifest.deps = {OnContext}] IN
    CASE name = "platform depends on context" -> dependent
      [] name = "platform imports context" ->
            [WithSources(dependent, Platform,
                         {FeatureIndex("test-capability", {ExportedModule})})
                EXCEPT !.edges = @ \union
                    {Edge("platform.test", "context.work-coordination", {<<"module">>})},
                       !.docs[PlatformOwner].revision = 1]
PlatformChanges == {"platform depends on context", "platform imports context"}

-----------------------------------------------------------------------------
(* Dependency specifiers.                                                  *)

FoundationName == "@agent-teams/engineering-foundation"
SpecifierChange(name, t) ==
    LET with(d) == [t EXCEPT !.packages[App].manifest.deps = @ \union {d}] IN
    CASE name = "direct external version" ->
            with(Dependency("external-one", FALSE, "dependencies", "exact", "none"))
      [] name = "cataloged dependency" ->
            with(Dependency("external-one", FALSE, "dependencies", "catalog", "default"))
      [] name = "direct internal version" ->
            [t EXCEPT !.packages[App].manifest.deps =
                {Dependency(ContextName, TRUE, "dependencies", "exact", "none")}]
      [] name = "missing catalog entry" ->
            with(Dependency("external-missing", FALSE, "dependencies", "catalog", "default"))
      [] name = "foundation at run time" ->
            with(Dependency(FoundationName, TRUE, "dependencies", "exact", "none"))
      [] name = "foundation for development" ->
            with(Dependency(FoundationName, TRUE, "devDependencies", "exact", "none"))
      [] name = "inexact foundation" ->
            with(Dependency(FoundationName, TRUE, "devDependencies", "range", "none"))
      [] name = "foundation imported" ->
            WithSources(t, App, {LaunchIndex({ExportedModule,
                                              Import("package", FoundationName, <<>>)}, FALSE)})
      [] name = "inexact catalog" ->
            [t EXCEPT !.workspace.catalogs["default"] = "external-one" :> "range"]
SpecifierChanges ==
    {"direct external version", "cataloged dependency", "direct internal version",
     "missing catalog entry", "foundation at run time", "foundation for development",
     "inexact foundation", "foundation imported", "inexact catalog"}

-----------------------------------------------------------------------------
(* The reliability catalog.                                                *)

QualifiedItem(item, decisions, evidence) ==
    [item EXCEPT !.qualification = "qualified", !.blockedBy = {},
                 !.decisionRefs = decisions, !.conformanceRefs = evidence]
ReliabilityChange(name, r) ==
    CASE name = "high-cardinality attribute" ->
            [r EXCEPT !.indicators = <<Indicator("candidate", <<"tenant.id">>, {})>>]
      [] name = "too many series" ->
            [r EXCEPT !.indicators = <<Indicator("candidate",
                [i \in 1..6 |-> "deployment.profile"], {})>>]
      [] name = "active without objective" ->
            [r EXCEPT !.indicators = <<Indicator("active", <<"deployment.profile">>, {})>>]
      [] name = "candidate indicator" ->
            [r EXCEPT !.indicators = <<Indicator("candidate", <<"deployment.profile">>, {})>>]
      [] name = "100 percent objective" ->
            [r EXCEPT !.indicators = <<Indicator("active", <<"deployment.profile">>,
                {[percent |-> 100, approvedAt |-> 1, reviewAfter |-> 2]})>>]
      [] name = "qualified profile with blockers" ->
            [r EXCEPT !.profiles[1].qualification = "qualified"]
      [] name = "qualified without evidence" ->
            [r EXCEPT !.profiles[1] = QualifiedItem(@, {}, {})]
      [] name = "qualified under a blocked framework" ->
            [r EXCEPT !.profiles[1] = QualifiedItem(@, {"ADR-0093"}, {"managed"})]
      [] name = "qualified framework" ->
            [r EXCEPT !.framework = QualifiedItem(@, {"ADR-0093"}, {"framework"})]
      [] name = "rebound framework" -> [r EXCEPT !.framework.blockedBy = {"OD-003"}]
      [] name = "deleted capability" -> [r EXCEPT !.capabilities = SubSeq(@, 1, 2)]
      [] name = "capability without a blocker" ->
            [r EXCEPT !.capabilities[2].blockedBy = {"OD-004"}]
      [] name = "profile without a blocker" ->
            [r EXCEPT !.profiles[4].blockedBy = @ \ {"OD-021"}]
      [] name = "commercial work as a blocker" ->
            [r EXCEPT !.profiles[3].blockedBy = @ \union {"OD-037"}]
      [] name = "unknown blocker" ->
            [r EXCEPT !.capabilities[1].blockedBy = {"OD-999", "OD-035"}]
ReliabilityChanges ==
    {"high-cardinality attribute", "too many series", "active without objective",
     "candidate indicator", "100 percent objective", "qualified profile with blockers",
     "qualified without evidence", "qualified under a blocked framework",
     "qualified framework", "rebound framework", "deleted capability",
     "capability without a blocker", "profile without a blocker",
     "commercial work as a blocker", "unknown blocker"}

-----------------------------------------------------------------------------
(* Documents.                                                              *)

\* Written with the indexes that list them.
Rewritten(t, docs) == [t EXCEPT !.docs = WithIndexes(docs, t.colocated)]

Contract(id) == Document("contract", "proposed", <<"docs", "contracts">>, id)
AnchorTo(pattern, enforcement) ==
    [pattern |-> pattern, form |-> "relative", enforcement |-> enforcement]
OnDossier(t, anchors) == [t EXCEPT !.docs[Dossier].anchors = anchors]

DocumentChange(name, t) ==
    CASE name = "no child index" ->
            [t EXCEPT !.docs = [id \in DOMAIN @ \ {"docs.architecture"} |-> @[id]]]
      [] name = "two titles" -> [t EXCEPT !.docs[PlatformOwner].titled = FALSE]
      [] name = "drifted owner" ->
            [t EXCEPT !.docs["docs.open-decisions"].rows =
                {[row EXCEPT !.cells["owner"] = "wrong/owner"] : row \in @}]
      [] name = "renamed lifecycle section" ->
            [t EXCEPT !.docs["docs.decisions"].sections =
                ("" :> {}) @@ ("current decisions" :> @["accepted decisions"])
                @@ ("proposed decisions" :> @["proposed decisions"])]
      [] name = "resolved without an ADR" ->
            Rewritten(t, [t.docs EXCEPT !["OD-035"].resolved_by = "null"])
      [] name = "unlinked feature document" ->
            [t EXCEPT !.docs["docs"].sections = "" :>
                {link \in @[""] : Len(link[1]) < 5}]
      [] name = "ADR without context" ->
            [t EXCEPT !.docs["ADR-0030"] =
                Headed(@, {"background", "decision", "consequences", "rejected alternatives"})]
      [] name = "escaping anchor" ->
            OnDossier(t, <<AnchorTo(<<"..", "outside", "**">>, "advisory")>>)
      [] name = "stale anchor" ->
            OnDossier(t, <<AnchorTo(<<"src", "missing", "**">>, "advisory")>>)
      [] name = "two anchors of a pattern" ->
            OnDossier(t, <<AnchorTo(<<"architecture", "**">>, "advisory"),
                           AnchorTo(<<"architecture", "**">>, "required")>>)
      [] name = "first contract" -> Rewritten(t, t.docs @@ ("contract.one" :> Contract("first")))
      [] name = "second contract" ->
            Rewritten(t, t.docs @@ ("contract.one" :> Contract("first"))
                                @@ ("contract.two" :> Contract("second")))
      [] name = "accepted but blocked" ->
            Rewritten(t, [t.docs EXCEPT ![Dossier].blocked_by = {"OD-040"},
                                        ![Dossier].related = {"OD-040"}])
      [] name = "required anchor" ->
            OnDossier(t, <<AnchorTo(Append(Context, "**"), "required")>>)
DocumentChanges ==
    {"no child index", "two titles", "drifted owner", "renamed lifecycle section",
     "resolved without an ADR", "unlinked feature document", "ADR without context",
     "escaping anchor", "stale anchor", "two anchors of a pattern", "first contract",
     "second contract", "accepted but blocked", "required anchor"}

\* A change of what the required, and of what the advisory anchor names.
WiderEdge == Edge("app.test", "context.work-coordination", {<<"module">>, <<"generated">>})
ImpactChange(name, t) ==
    CASE name = "required impact" -> [t EXCEPT !.edges = {WiderEdge}]
      [] name = "required impact, reviewed" ->
            [t EXCEPT !.edges = {WiderEdge}, !.docs[PlatformOwner].revision = 1]
      [] name = "advisory impact" ->
            [t EXCEPT !.catalog = @ \union
                {Entry("testing.conformance", "testing", <<"packages", "testing", "conformance">>,
                       "@agent-teams/conformance", PlatformOwner)}]
      [] name = "another source" ->
            WithSources(t, Context, t.packages[Context].sources \union
                {Source(<<"features", "task-model", "policy">>, {})})
ImpactChanges ==
    {"required impact", "required impact, reviewed", "advisory impact", "another source"}

-----------------------------------------------------------------------------
(* Decisions.                                                              *)

\* What the documents ask for when ADR-0099 settles the decisions of `ids'.
Settled(docs, ids) ==
    [id \in DOMAIN docs |->
        LET d == docs[id] IN
        IF id = "ADR-0099" THEN Adr(id, 99, "accepted")
        ELSE IF id \in ids THEN Resolved(d, "ADR-0099")
        ELSE [d EXCEPT !.blocked_by = @ \ ids]]

SupervisorPath == <<"apps", "local-supervisor">>
Supervisor ==
    Package(PackageManifest("@agent-teams/app-local-supervisor", "app", "ADR-0060", NoMore, {}),
            {FeatureIndex("local-supervisor", {})})
\* The tree t with the code of the local supervisor, all of it declared.
WithSupervisor(t) ==
    LET colocated == t.colocated @@ Features({"local-supervisor"}) IN
    [t EXCEPT !.packages = @ @@ (SupervisorPath :> Supervisor),
              !.references = Append(@, Plain(SupervisorPath)),
              !.colocated = colocated,
              !.docs = WithIndexes(@, colocated)]

DecisionChange(name, t) ==
    CASE name = "local host settled" -> Rewritten(t, Settled(t.docs, {"OD-021"}))
      [] name = "materialization settled" -> Rewritten(t, Settled(t.docs, {"OD-021", "OD-040"}))
      [] name = "local gates opened" -> [t EXCEPT !.policy = LocalGates("allowed", "ADR-0099")]
      [] name = "local host put off" ->
            Rewritten(t, [t.docs EXCEPT !["OD-021"].status = "deferred"])
      [] name = "local supervisor built" -> WithSupervisor(t)
      [] name = "local supervisor opened" ->
            WithSupervisor([Rewritten(t, Settled(t.docs, {"OD-021", "OD-040"}))
                                EXCEPT !.policy = LocalGates("allowed", "ADR-0099")])
DecisionChanges ==
    {"local host settled", "materialization settled", "local gates opened",
     "local host put off", "local supervisor built", "local supervisor opened"}

-----------------------------------------------------------------------------
ChangeNames ==
    ManifestChanges \union DOMAIN ReferenceChanges \union DOMAIN AddedSources
    \union ContextChanges \union DOMAIN FeatureChanges \union AppChanges \union PlatformChanges
    \union SpecifierChanges \union ReliabilityChanges \union DocumentChanges
    \union ImpactChanges \union DecisionChanges

OnPackage ==
    [name \in ManifestChanges \union DOMAIN ReferenceChanges \union ContextChanges
               \union DOMAIN FeatureChanges \union {"another source", "required anchor"}
        |-> Context]
    @@ [name \in DOMAIN AddedSources |-> AddedSources[name].at]
    @@ [name \in AppChanges \union SpecifierChanges |-> App]
    @@ [name \in PlatformChanges |-> Platform]

Applicable(name, t) ==
    /\ name \in DOMAIN OnPackage => OnPackage[name] \in DOMAIN t.packages
    /\ name \in DOMAIN FeatureChanges => "dependency-model" \in DOMAIN t.colocated
    /\ name = "proposed feature" => "task-model" \in DOMAIN t.colocated
    /\ name \in {"local supervisor built", "local supervisor opened"} =>
           SupervisorPath \notin DOMAIN t.packages

Apply(name, t) ==
    CASE name \in ManifestChanges ->
            [t EXCEPT !.packages[Context].manifest = ManifestChange(name, @)]
      [] name \in DOMAIN ReferenceChanges -> [t EXCEPT !.references = ReferenceChanges[name]]
      [] name \in DOMAIN AddedSources ->
            LET added == AddedSources[name] IN
            WithSources(t, added.at, t.packages[added.at].sources \union {added.source})
      [] name \in ContextChanges -> ContextChange(name, t)
      [] name \in DOMAIN FeatureChanges -> FeatureChange(name, t)
      [] name \in AppChanges -> AppChange(name, t)
      [] name \in PlatformChanges -> PlatformChange(name, t)
      [] name \in SpecifierChanges -> SpecifierChange(name, t)
      [] name \in ReliabilityChanges ->
            [t EXCEPT !.reliability = ReliabilityChange(name, @)]
      [] name \in DocumentChanges -> DocumentChange(name, t)
      [] name \in ImpactChanges -> ImpactChange(name, t)
      [] name \in DecisionChanges -> DecisionChange(name, t)

-----------------------------------------------------------------------------
TopologyVerdicts ==
    Verdict("topology", "context", TRUE,
            {"trailing slash", "explicit tsconfig", "export of generated code"})
    \union
    Verdict("topology", "context", FALSE,
            (ManifestChanges \ {"export of generated code"})
            \union {"absolute reference", "missing reference", "duplicate reference"}
            \union ContextChanges \union {"unowned hidden source", "source outside features"})
    \union
    Verdict("topology", "feature", FALSE,
            (DOMAIN FeatureChanges \ {"import dropped, edge kept"})
            \union {"feature module", "tests in a feature", "adapter imports sibling"})
    \union
    Verdict("topology", "app", FALSE, AppChanges \union {"app source outside features"})
    \union
    Verdict("topology", "platform", FALSE, {"platform depends on context"})

SpecifierVerdicts ==
    Verdict("specifiers", "app", TRUE, {"cataloged dependency", "foundation for development"})
    \union
    Verdict("specifiers", "app", FALSE,
            SpecifierChanges \ {"cataloged dependency", "foundation for development"})

OtherVerdicts ==
    Verdict("reliability", "context", FALSE,
            ReliabilityChanges \ {"too many series", "candidate indicator"})
    \union
    Verdict("documents", "context", TRUE, {"first contract"})
    \union
    Verdict("documents", "context", FALSE,
            DocumentChanges \ {"first contract", "accepted but blocked", "required anchor"})
    \union
    Verdict("impact", "context", TRUE, {"advisory impact", "required impact, reviewed"})
    \union
    Verdict("impact", "context", FALSE, {"required impact"})

ExpectedVerdicts == TopologyVerdicts \union SpecifierVerdicts \union OtherVerdicts
=============================================================================
