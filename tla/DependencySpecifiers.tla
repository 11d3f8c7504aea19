-------------------------- MODULE DependencySpecifiers --------------------------
(***************************************************************************)
(* What validate-dependency-specifiers.mjs demands of a working tree.      *)
(*                                                                         *)
(* Of a tree `t' it reads                                                  *)
(*   t.workspace   pnpm-workspace.yaml: [mode, patterns, catalogs], where a *)
(*                 pattern is [prefix, depth, negated] and a catalog maps a *)
(*                 dependency to the form of its version                   *)
(*   t.tooling     the packages that only development may depend on        *)
(*   t.root        the manifest of the workspace itself                    *)
(*   t.packages    package root -> [manifest, sources, ...]                *)
(* A dependency is [internal, section, name, range, catalog]: internal says *)
(* that the name is in the scope of the organization, and the range is     *)
(* "workspace", "exact", "catalog" or another one.                         *)
(***************************************************************************)
EXTENDS FiniteSets, SequencesExt

ExactCatalogs(t) ==
    \A name \in DOMAIN t.workspace.catalogs :
        \A dep \in DOMAIN t.workspace.catalogs[name] :
            t.workspace.catalogs[name][dep] = "exact"

PatternMatches(pattern, directory) ==
    /\ IsPrefix(pattern.prefix, directory)
    /\ pattern.depth = "one" => Len(directory) = Len(pattern.prefix) + 1
MatchesWorkspace(t, directory) ==
    /\ \E p \in t.workspace.patterns : ~p.negated /\ PatternMatches(p, directory)
    /\ ~\E p \in t.workspace.patterns : p.negated /\ PatternMatches(p, directory)

\* The package roots with a manifest that belongs to the workspace.
WorkspaceRoots(t) ==
    {root \in DOMAIN t.packages :
        t.packages[root].manifest.state # "missing" /\ MatchesWorkspace(t, root)}
WorkspaceManifests(t) ==
    {[root |-> <<>>, manifest |-> t.root]} \union
    {[root |-> r, manifest |-> t.packages[r].manifest] : r \in WorkspaceRoots(t)}
WorkspaceNames(t) == {m.manifest.name : m \in WorkspaceManifests(t)}

ManifestNames(t) ==
    \A m, n \in WorkspaceManifests(t) :
        /\ m.manifest.state = "read" /\ m.manifest.name # ""
        /\ m.manifest.name = n.manifest.name => m = n

\* The first of these that applies decides.
ValidDependency(t, d) ==
    IF d.name \in WorkspaceNames(t) THEN d.range = "workspace"
    ELSE IF d.name \in t.tooling THEN d.section = "devDependencies" /\ d.range = "exact"
    ELSE /\ ~d.internal
         /\ d.range = "catalog"
         /\ d.catalog \in DOMAIN t.workspace.catalogs
         /\ d.name \in DOMAIN t.workspace.catalogs[d.catalog]

\* A test is a source file here: the extension alone counts.
ProductionToolingImports(t) ==
    \A root \in DOMAIN t.packages :
        \A s \in t.packages[root].sources :
            s.kind # "other" => \A x \in s.imports : x.name \notin t.tooling

ValidSpecifiers(t) ==
    /\ t.workspace.mode = "strict"
    /\ ExactCatalogs(t)
    /\ t.workspace.patterns # {} /\ t.tooling # {}
    /\ ManifestNames(t)
    /\ \A m \in WorkspaceManifests(t) : \A d \in m.manifest.deps : ValidDependency(t, d)
    /\ ProductionToolingImports(t)
=============================================================================
