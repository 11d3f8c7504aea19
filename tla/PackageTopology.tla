---------------------------- MODULE PackageTopology ----------------------------
(***************************************************************************)
(* What validate-package-topology.mjs demands of a working tree.           *)
(*                                                                         *)
(* A tree `t' is a record; this module reads of it                         *)
(*   t.catalog       entries [id, role, path, package_name, owner_document] *)
(*   t.docs          id -> the document [type, status, resolved_by, ...]   *)
(*                   below docs/, and t.colocated the READMEs of features  *)
(*   t.policy        the materialization policy                            *)
(*   t.edges         [from, to, imports]: which package may import which   *)
(*                   exports of which                                      *)
(*   t.featureEdges  [package, from, to, imports]: the same for features   *)
(*   t.packages      package root -> the files below it                    *)
(*   t.references    the project references of the root tsconfig           *)
(* A path is the sequence of its segments, without a source extension; an  *)
(* export key is the path below the package.                               *)
(***************************************************************************)
EXTENDS MaterializationPolicy, FiniteSets, SequencesExt

Foundation == "@agent-teams/engineering-foundation"

Sections == {"dependencies", "devDependencies", "optionalDependencies", "peerDependencies"}

Roles == {"app", "bounded-context", "integration", "platform", "sdk", "testing"}

RolePath(role, path) ==
    LET under == [r \in Roles |->
            CASE r = "app" -> <<"apps">>
              [] r = "bounded-context" -> <<"packages", "contexts">>
              [] r = "integration" -> <<"packages", "integrations">>
              [] OTHER -> <<"packages", r>>]
    IN  /\ IsPrefix(under[role], path)
        /\ IF role = "integration" THEN Len(path) > 2 ELSE Len(path) = Len(under[role]) + 1

\* Mutant: a platform package may depend on a business context.
PlatformDependsOnContext ==
    [role \in Roles |->
        IF role = "platform" THEN {"platform", "bounded-context"} ELSE Roles]

AllowedInternalDependencyRoles ==
    [role \in Roles |->
        CASE role = "app" -> {"bounded-context", "integration", "platform", "sdk"}
          [] role = "bounded-context" -> {"bounded-context", "integration", "platform"}
          [] role = "integration" -> {"integration", "platform"}
          [] role = "platform" -> {"platform"}
          [] role = "sdk" -> {"sdk"}
          [] role = "testing" -> Roles]

\* A relation has a cycle when some set of nodes leaves itself nowhere to end.
Acyclic(edges) ==
    LET nodes == {e[1] : e \in edges} IN
    ~\E S \in SUBSET nodes \ {{}} : \A n \in S : \E m \in S : <<n, m>> \in edges

-----------------------------------------------------------------------------
(* The catalog.                                                            *)

CatalogIds(t) == {e.id : e \in t.catalog}
CatalogPaths(t) == {e.path : e \in t.catalog}
EntryAt(t, path) == CHOOSE e \in t.catalog : e.path = path
EntryNamed(t, name) == CHOOSE e \in t.catalog : e.package_name = name
EntryOf(t, id) == CHOOSE e \in t.catalog : e.id = id
Registered(t, name) == \E e \in t.catalog : e.package_name = name

CatalogSemantics(t) ==
    /\ \A e, f \in t.catalog :
           e.id = f.id \/ e.path = f.path \/ e.package_name = f.package_name => e = f
    /\ \A e \in t.catalog :
           /\ e.role \in Roles
           /\ e.path \in Seq(STRING) /\ RolePath(e.role, e.path)
           /\ e.owner_document \in DOMAIN t.docs
           /\ e.role = "bounded-context" => t.docs[e.owner_document].type = "bounded-context"
    /\ \A e, f \in t.catalog : IsPrefix(e.path, f.path) => e = f

\* The catalogued paths below which a production file lies.
MaterializedPaths(t) ==
    {path \in CatalogPaths(t) : \E root \in DOMAIN t.packages : IsPrefix(path, root)}

NothingOutsideTheCatalog(t) ==
    \A root \in DOMAIN t.packages : \E path \in CatalogPaths(t) : IsPrefix(path, root)

Materialized(t, id) == \E e \in t.catalog : e.id = id /\ e.path \in MaterializedPaths(t)

\* The packages whose manifest could be read: the ones imports are checked of.
Readable(t) == {path \in MaterializedPaths(t) \intersect DOMAIN t.packages :
                    t.packages[path].manifest.state = "read"}
Manifest(t, path) == t.packages[path].manifest

-----------------------------------------------------------------------------
(* Exports: the value of a key has the form "null", "string" or            *)
(* "conditions", and a target is "declaration", "esm", "built" (another    *)
(* normalized file below dist), "other" or "none".                         *)

ValueTargets(v) ==
    CASE v.form = "null" -> {}
      [] v.form = "string" -> {v.import}
      [] OTHER -> {v.types, v.import} \ {"none"}
StringTargets(exports) == UNION {ValueTargets(exports[key]) : key \in DOMAIN exports}

QualifiedLibraryExports(exports) ==
    /\ <<>> \in DOMAIN exports /\ exports[<<>>].form = "conditions"
    /\ \A key \in DOMAIN exports : exports[key].form # "null" =>
           /\ exports[key].form = "conditions"
           /\ exports[key].types = "declaration"
           /\ exports[key].import = "esm"

HasExportTarget(v) == ValueTargets(v) # {}

\* A key that is there decides; otherwise the pattern with the longest prefix.
WildcardKeys(exports, key) ==
    {k \in DOMAIN exports : /\ k # <<>> /\ Last(k) = "*"
                            /\ IsPrefix(Front(k), key) /\ Len(key) >= Len(k)}
\* Mutant: any pattern that matches exports a subpath.
IsExportedByAnyPattern(exports, key) ==
    \/ key \in DOMAIN exports /\ HasExportTarget(exports[key])
    \/ \E k \in WildcardKeys(exports, key) : HasExportTarget(exports[k])

IsExportedSubpath(exports, key) ==
    IF key \in DOMAIN exports THEN HasExportTarget(exports[key])
    ELSE \E k \in WildcardKeys(exports, key) :
             /\ \A other \in WildcardKeys(exports, key) : Len(other) <= Len(k)
             /\ HasExportTarget(exports[k])

-----------------------------------------------------------------------------
(* Sources.  A source is [at, kind, imports, broken, dynamic]: where below  *)
(* src it lies, whether it is a production source, a test or another file, *)
(* its static specifiers, and whether it does not parse or loads a module  *)
(* by a computed name.  A specifier is [kind, name, to]: "relative" to a   *)
(* path of the repository, "package" name with a subpath, "alias" of this  *)
(* package's imports field, "absolute", or "external".                     *)

IsProductionSource(s) == s.kind = "source"
ProductionSources(t, path) == {s \in t.packages[path].sources : IsProductionSource(s)}

SourceRoot(path) == Append(path, "src")
InFeature(s) == Len(s.at) > 2 /\ s.at[1] = "features"
FeatureNames(t, path) == {s.at[2] : s \in {x \in ProductionSources(t, path) : InFeature(x)}}

\* The schema of the documents shapes the id, the owner and the summary.
ValidFeatureMetadata(readme, ownerDocument) ==
    /\ readme.type = "feature" /\ readme.status = "accepted"
    /\ ownerDocument \in readme.related

IsReadmeOf(d, path, feature) ==
    d.at = path \o <<"src", "features", feature>> /\ d.file = "README"

FeatureDocumentation(t, e) ==
    /\ FeatureNames(t, e.path) # {}
    /\ \A feature \in FeatureNames(t, e.path) :
           \E id \in DOMAIN t.colocated :
               /\ IsReadmeOf(t.colocated[id], e.path, feature)
               /\ ValidFeatureMetadata(t.colocated[id], e.owner_document)

ForbiddenRootDirectories ==
    {"common", "core", "infrastructure", "processes", "services", "shared", "utils"}
AssemblyDirectories == {"composition", "generated", "migrations", "published-language"}

AllowedAssemblyPath(s) ==
    \/ s.kind = "source" /\ s.at \in {<<"index">>, <<"module">>}
    \/ Len(s.at) > 1 /\ s.at[1] \in AssemblyDirectories
    \/ InFeature(s)

SourceLayout(sources) ==
    \A s \in sources :
        /\ s.at[1] \notin ForbiddenRootDirectories
        /\ AllowedAssemblyPath(s)
        /\ InFeature(s) => /\ Len(s.at) > 3 => s.at[3] \notin {"projections", "tests"}
                           /\ ~(Len(s.at) = 3 /\ s.at[3] = "module" /\ s.kind = "source")

TestLayout(tests) == \A at \in tests : ~IsPrefix(<<"tests", "unit">>, at)

-----------------------------------------------------------------------------
(* A materialized package.                                                 *)

LibraryManifest(e, m) ==
    e.role # "app" =>
        /\ DOMAIN m.exports # {}
        /\ m.type = "module"
        /\ {"build", "check", "test", "typecheck"} \subseteq m.scripts
        /\ QualifiedLibraryExports(m.exports)
        /\ StringTargets(m.exports) \subseteq {"declaration", "esm", "built"}
        /\ "dist" \in m.files

\* Every section may declare a package of the organization, with its range.
ManifestDependencies(t, e, m) ==
    \A d \in m.deps : d.internal /\ d.name # Foundation =>
        /\ Registered(t, d.name)
        /\ d.range = "workspace"
        /\ LET to == EntryNamed(t, d.name) IN
           /\ \/ d.section = "devDependencies" /\ to.role = "testing"
              \/ to.role \in AllowedInternalDependencyRoles[e.role]
           /\ d.name # m.name =>
                  \E edge \in t.edges : edge.from = e.id /\ edge.to = to.id

OwnerAccepted(t, e) == t.docs[e.owner_document].status \in AcceptedOwnerStatuses

NotReserved(t, e) == ~Deferred(t.policy, e.id)

MaterializedPackage(t, e) ==
    LET p == t.packages[e.path]
        m == p.manifest
    IN
    /\ NotReserved(t, e)
    /\ OwnerAccepted(t, e)
    /\ e.path \in DOMAIN t.packages
    /\ m.state = "read"
    /\ m.name = e.package_name
    /\ m.private
    /\ m.role = e.role /\ m.ownerDocument = e.owner_document
    /\ LibraryManifest(e, m)
    /\ p.tsconfig = "plain"
    /\ m.imports \subseteq {"local"}
    /\ ManifestDependencies(t, e, m)
    /\ FeatureDocumentation(t, e)
    /\ SourceLayout(p.sources)
    /\ TestLayout(p.tests)

\* A reference is [path, form]; "slash" and "tsconfig" are forms of the same
\* path, an "outside" one is refused.
RootTsconfig(t) ==
    /\ \A i \in DOMAIN t.references : t.references[i].form # "outside"
    /\ \A path \in MaterializedPaths(t) :
           Cardinality({i \in DOMAIN t.references : t.references[i].path = path}) = 1
    /\ \A i \in DOMAIN t.references :
           t.references[i].path \in CatalogPaths(t)
               => t.references[i].path \in MaterializedPaths(t)

-----------------------------------------------------------------------------
(* Dependencies between packages.                                          *)

SourceDependencyPolicy(t) ==
    /\ \A edge \in t.edges :
           /\ {edge.from, edge.to} \subseteq CatalogIds(t)
           /\ edge.from # edge.to
           /\ EntryOf(t, edge.to).role
                  \in AllowedInternalDependencyRoles[EntryOf(t, edge.from).role]
    /\ \A a, b \in t.edges : a.from = b.from /\ a.to = b.to => a = b
    /\ Acyclic({<<edge.from, edge.to>> : edge \in t.edges})

\* The edge that allows package e the export an import asks for.
EdgeAllows(t, e, to, key) ==
    \E edge \in t.edges : edge.from = e.id /\ edge.to = to.id /\ key \in edge.imports

InternalSpecifier(t, e, x) ==
    /\ x.kind = "relative" => IsPrefix(e.path, x.to)
    /\ x.kind # "absolute"
    /\ x.kind = "package" /\ x.name # Foundation =>
           /\ x.name # e.package_name
           /\ Registered(t, x.name)
           /\ \E d \in Manifest(t, e.path).deps : d.name = x.name
           /\ ~IsPrefix(<<"src">>, x.to)
           /\ LET to == EntryNamed(t, x.name) IN
              /\ to.path \in Readable(t)
              /\ EdgeAllows(t, e, to, x.to)
              /\ IsExportedSubpath(Manifest(t, to.path).exports, x.to)

-----------------------------------------------------------------------------
(* Dependencies between the features of a package.                         *)

CrossFeature(e, s, x) ==
    /\ x.kind = "relative"
    /\ InFeature(s)
    /\ IsPrefix(SourceRoot(e.path) \o <<"features">>, x.to)
    /\ Len(x.to) > Len(e.path) + 2
    /\ x.to[Len(e.path) + 3] # s.at[2]

\* The part of an internal API a path names, below the root of the package.
IsInternalApi(below) ==
    Len(below) = 5 /\ below[4] \in {"domain", "application"} /\ below[5] = "internal-api"

UsedSurface(e, s, x) ==
    LET below == SubSeq(x.to, Len(e.path) + 1, Len(x.to)) IN
    [package |-> e.id, from |-> s.at[2], to |-> below[3], surface |-> below[4]]

CrossFeatureSpecifier(t, e, s, x) ==
    CrossFeature(e, s, x) =>
        /\ IsInternalApi(SubSeq(x.to, Len(e.path) + 1, Len(x.to)))
        /\ s.at[3] \in {"domain", "application"}
        /\ LET use == UsedSurface(e, s, x) IN
           /\ s.at[3] = "domain" => use.surface = "domain"
           /\ \E edge \in t.featureEdges :
                  /\ edge.package = e.id /\ edge.from = use.from /\ edge.to = use.to
                  /\ use.surface \in edge.imports

UsedFeatureSurfaces(t, e) ==
    {UsedSurface(e, u[1], u[2]) : u \in
        {v \in UNION {{s} \X s.imports : s \in ProductionSources(t, e.path)} :
            CrossFeature(e, v[1], v[2])}}

\* Mutant: a feature edge may outlive the import it was declared for.
FeatureEdgesMaterialized(t) ==
    \A edge \in t.featureEdges :
        \E path \in Readable(t) : EntryAt(t, path).id = edge.package

FeatureDependencyUsage(t) ==
    \A edge \in t.featureEdges :
        \E path \in Readable(t) :
            LET e == EntryAt(t, path) IN
            /\ e.id = edge.package
            /\ {edge.from, edge.to} \subseteq FeatureNames(t, path)
            /\ \A surface \in edge.imports :
                   [package |-> e.id, from |-> edge.from, to |-> edge.to,
                    surface |-> surface] \in UsedFeatureSurfaces(t, e)

FeatureDependencyPolicy(t) ==
    /\ \A edge \in t.featureEdges :
           edge.package \in CatalogIds(t) /\ edge.from # edge.to
    /\ \A a, b \in t.featureEdges :
           a.package = b.package /\ a.from = b.from /\ a.to = b.to => a = b
    /\ Acyclic({<<<<edge.package, edge.from>>, <<edge.package, edge.to>>>> :
                    edge \in t.featureEdges})

InternalPackageImports(t) ==
    /\ \A path \in Readable(t) :
           \A s \in ProductionSources(t, path) :
               /\ ~s.broken /\ ~s.dynamic
               /\ \A x \in s.imports :
                      /\ CrossFeatureSpecifier(t, EntryAt(t, path), s, x)
                      /\ InternalSpecifier(t, EntryAt(t, path), x)
    /\ FeatureDependencyUsage(t)

-----------------------------------------------------------------------------
ValidTopology(t) ==
    /\ CatalogSemantics(t)
    /\ ValidPolicy(t.policy, CatalogIds(t), t.docs)
    /\ SourceDependencyPolicy(t)
    /\ FeatureDependencyPolicy(t)
    /\ NothingOutsideTheCatalog(t)
    /\ \A path \in MaterializedPaths(t) : MaterializedPackage(t, EntryAt(t, path))
    /\ RootTsconfig(t)
    /\ InternalPackageImports(t)
=============================================================================
