---------------------------- MODULE RepositoryGate ----------------------------
(***************************************************************************)
(* A change reaches the main branch of the repository through `pnpm check' *)
(* and, on a pull request, `pnpm docs:impact --strict'                     *)
(* (.github/workflows/architecture.yml).  A tree is edited one change at a *)
(* time, judged as a whole by every validator, and taken over or dropped.  *)
(*                                                                         *)
(* The validators are separate programs: none of them knows what another   *)
(* one asks for.  What only all of them together guarantee of a tree that  *)
(* was taken over is what the properties below say.                        *)
(***************************************************************************)
EXTENDS PackageTopology, DependencySpecifiers, ReliabilityCatalog, DocumentRules

CONSTANTS
    Stages,           \* stage -> the tree the repository starts from
    Names,            \* the names of the changes,
    Possible(_, _),   \* whether one can be made to a tree,
    Changed(_, _),    \* and the tree it makes
    Verdicts,         \* what the scripts expect of one change of a stage
    MaxChanges        \* bound of the changes that are taken over together

\* `agent-teams-docs check', which alone refuses a second document of an id.
UniqueIds(t) == DOMAIN t.docs \intersect ColocatedMarkdown(t) = {}

ValidTree(t) ==
    /\ ValidTopology(t) /\ ValidSpecifiers(t) /\ ValidReliability(t)
    /\ ValidDocuments(t) /\ UniqueIds(t)

ASSUME StagesAssumption == \A stage \in DOMAIN Stages : ValidTree(Stages[stage])
ASSUME BoundsAssumption == MaxChanges \in Nat

VARIABLES
    base,     \* the tree of the main branch
    tree,     \* the working tree
    changes,  \* the changes made to it since
    merges    \* how often a change was taken over
vars == <<base, tree, changes, merges>>

Init ==
    /\ base \in {Stages[stage] : stage \in DOMAIN Stages}
    /\ tree = base
    /\ changes = {} /\ merges = 0

Change(name) ==
    /\ Cardinality(changes) + merges < MaxChanges
    /\ name \in Names \ changes
    /\ Possible(name, tree)
    /\ tree' = Changed(name, tree)
    /\ changes' = changes \union {name}
    /\ UNCHANGED <<base, merges>>

\* What the job answers: `pnpm check' of the tree, and the impact of all its
\* changes.
ExitCode(from, to) == IF ValidTree(to) /\ StrictImpact(from, to) THEN 0 ELSE 1

\* What git holds of a tree is a file for each path: no two share one.
Clashes(t) == {x \in Snapshot(t) : \E y \in Snapshot(t) : y[1] = x[1] /\ y # x}
OneFilePerPath(t) == Clashes(t) = {}

TakeOver ==
    /\ changes # {}
    /\ ExitCode(base, tree) = 0
    /\ OneFilePerPath(tree)
    /\ base' = tree /\ changes' = {} /\ merges' = merges + 1
    /\ UNCHANGED tree

Drop ==
    /\ changes # {}
    /\ tree' = base /\ changes' = {}
    /\ UNCHANGED <<base, merges>>

Next == (\E name \in Names : Change(name)) \/ TakeOver \/ Drop

Spec == Init /\ [][Next]_vars

-----------------------------------------------------------------------------
(* Properties.                                                             *)

Judges(judge, from, to) ==
    CASE judge = "topology" -> ValidTopology(to)
      [] judge = "specifiers" -> ValidSpecifiers(to)
      [] judge = "documents" -> ValidDocuments(to)
      [] judge = "reliability" -> ValidReliability(to)
      [] judge = "impact" -> StrictImpact(from, to)

\* Of each single change its conformance script makes to its fixture, a
\* validator says what the script expects it to say.
VerdictsMatch ==
    \A v \in Verdicts :
        (changes = {v.name} /\ base = Stages[v.stage])
            => (Judges(v.judge, base, tree) <=> v.accepted)

\* While the decision that closes them is there, no package of a local host
\* has code: its gates hold OD-021 and the reliability catalog keeps OD-021
\* unresolved (package-materialization-validation.mjs:48, 50-94 together with
\* qualification-validation.mjs:12-47, 250-297).
LocalPackagesReservedIn(t) ==
    "ADR-0093" \in DOMAIN t.docs => \A id \in LocalPackages : ~Materialized(t, id)
LocalPackagesReserved == LocalPackagesReservedIn(base)

Settles(d) == d.status \in {"accepted", "active"} /\ d.blocked_by = {}

\* What validate-docs does not look at: whatever lies below a `fixtures'.
Overlooked(path, feature) == "fixtures" \in Range(path) \union {feature}

\* The code of every package has an owner that is accepted, waits for no
\* decision and can be found from docs/README, and so has every feature of it
\* but those below a directory called fixtures
\* (validate-package-topology.mjs:264-350 with validate-docs.mjs:331-418).
CodeHasAuthorityIn(t) ==
    LET docs == GovernedMarkdown(t)
        found == ReachableIds(t, docs)
    IN  \A path \in MaterializedPaths(t) :
            LET e == EntryAt(t, path) IN
            /\ e.owner_document \in found /\ Settles(docs[e.owner_document])
            /\ \A feature \in FeatureNames(t, path) : ~Overlooked(path, feature) =>
                   \E id \in found : /\ IsReadmeOf(docs[id], path, feature)
                                     /\ docs[id].status = "accepted" /\ Settles(docs[id])
                                     /\ e.owner_document \in docs[id].related
CodeHasAuthority == CodeHasAuthorityIn(base)

\* What the production sources of the packages import of each other.
ImportGraph(t) ==
    UNION {{<<EntryAt(t, path).id, EntryNamed(t, x.name).id>> :
                x \in {y \in UNION {s.imports : s \in ProductionSources(t, path)} :
                            /\ y.kind = "package" /\ y.name # Foundation
                            /\ Registered(t, y.name)}} :
            path \in Readable(t)}
FeatureImportGraph(t) ==
    UNION {{<<<<u.package, u.from>>, <<u.package, u.to>>>> :
                u \in UsedFeatureSurfaces(t, EntryAt(t, path))} : path \in Readable(t)}

\* The imports themselves, and not only the edges declared for them, form no
\* cycle, and no chain of them leads from a platform or an sdk to a context
\* or an app (package-topology-source.mjs:26-33, 151-341).
ImportsLayeredIn(t) ==
    /\ Acyclic(ImportGraph(t)) /\ Acyclic(FeatureImportGraph(t))
    /\ \A edge \in ImportGraph(t) :
           /\ EntryOf(t, edge[1]).role = "platform" => EntryOf(t, edge[2]).role = "platform"
           /\ EntryOf(t, edge[2]).role # "app" \/ EntryOf(t, edge[1]).role = "testing"
ImportsLayered == ImportsLayeredIn(base)

\* No permission outlives its use: the edges between features are exactly the
\* imports there are (package-topology-features.mjs:26-123).
FeatureEdgesExactIn(t) ==
    UNION {UsedFeatureSurfaces(t, EntryAt(t, path)) : path \in Readable(t)}
        = UNION {{[package |-> edge.package, from |-> edge.from, to |-> edge.to,
                   surface |-> surface] : surface \in edge.imports} : edge \in t.featureEdges}
FeatureEdgesExact == FeatureEdgesExactIn(base)

\* A decision that was settled holds nothing up any more: whatever document,
\* package or release profile waits, waits for decisions that are still to be
\* made (document-relations.mjs:16-84, package-materialization-validation.mjs:
\* 50-94, qualification-validation.mjs:101-120, 250-297).
NoStaleBlockerIn(t) ==
    LET docs == GovernedMarkdown(t)
        pending == {id \in DOMAIN docs : docs[id].status \in Unresolved}
    IN  /\ \A id \in DOMAIN docs : docs[id].blocked_by \subseteq pending
        /\ \A item \in Items(t) :
               /\ item.blockedBy \subseteq pending
               /\ item.blockedBy = {} => item.qualification = "qualified"
        /\ \A i \in DOMAIN t.policy :
               t.policy[i].state = "deferred" <=> t.policy[i].blocked_by \intersect pending # {}
NoStaleBlocker == NoStaleBlockerIn(base)

\* A change of what the governed documents anchor as required, deletions
\* aside, changes the document too, or takes it out of those that are governed:
\* the anchors are read in the changed tree, so dropping one is a change of its
\* document (check-doc-impact.mjs:127-208).
Kept(d, t) == \E id \in DOMAIN GovernedMarkdown(t) : GovernedMarkdown(t)[id] = d
RequiredBy(d, path) ==
    \E a \in Range(d.anchors) : a.enforcement = "required" /\ MatchesAnchor(path, a.pattern)
ReviewedChanges ==
    [][\A file \in Snapshot(base') \ Snapshot(base) : \A id \in DOMAIN GovernedMarkdown(base) :
          LET d == GovernedMarkdown(base)[id] IN
          RequiredBy(d, file[1]) => ~Kept(d, base')]_base
=============================================================================
