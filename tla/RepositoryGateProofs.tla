-------------------------- MODULE RepositoryGateProofs --------------------------
(***************************************************************************)
(* Four validators that know nothing of each other keep the main branch    *)
(* valid, whatever changes are made; what follows from several of them     *)
(* together holds of every tree that was ever taken over.                  *)
(***************************************************************************)
EXTENDS RepositoryGate, SequenceTheorems, TLAPS

\* The main branch passes every validator: it starts so, and TakeOver is the
\* only action that moves it (architecture.yml:40-45).
THEOREM GateKeepsTreesValid == Spec => []ValidTree(base)
  <1>1. Init => ValidTree(base)
    BY StagesAssumption DEF Init
  <1>2. ValidTree(base) /\ [Next]_vars => ValidTree(base)'
    <2> SUFFICES ASSUME ValidTree(base), [Next]_vars PROVE ValidTree(base')
      OBVIOUS
    <2>1. CASE \E name \in Names : Change(name) BY <2>1 DEF Change
    <2>2. CASE TakeOver BY <2>2 DEF TakeOver, ExitCode
    <2>3. CASE Drop BY <2>3 DEF Drop
    <2>4. CASE UNCHANGED vars BY <2>4 DEF vars
    <2>5. QED BY <2>1, <2>2, <2>3, <2>4 DEF Next
  <1>3. QED BY <1>1, <1>2, PTL DEF Spec

-----------------------------------------------------------------------------
(* Packages of a local host.                                               *)

\* The release profile fully-local names OD-021, and what a profile names is
\* still to be decided.
LEMMA LocalDecisionPending ==
  ASSUME NEW t, ValidReliability(t)
  PROVE  Blocks(t, "OD-021")
  <1>1. ValidProfiles(t) /\ QualificationReferences(t)
    BY DEF ValidReliability, ReliabilitySemantics
  <1>2. PICK p \in Profiles(t) : p.id = "fully-local"
    BY <1>1 DEF ValidProfiles, RequiredDeploymentProfiles, ProfileIds
  <1>3. MatchesDefinition(p)
    BY <1>1 DEF ValidProfiles
  <1>4. "fully-local" \in RequiredDeploymentProfiles
    BY DEF RequiredDeploymentProfiles
  <1>5. ExpectedProfileDefinitions["fully-local"]
          = Profile("v1-target", "local-standalone", "none",
                    {"local-host-runtime-execution"},
                    {"OD-001", "OD-003", "OD-009", "OD-021"})
    BY <1>4 DEF ExpectedProfileDefinitions
  <1>6. "OD-021" \in p.blockedBy
    BY <1>2, <1>3, <1>4, <1>5 DEF MatchesDefinition, Profile
  <1>7. QED BY <1>1, <1>2, <1>6 DEF QualificationReferences, Items

\* The entry that counts for a package is one that names it, and the policy
\* has one entry of each.
LEMMA EntryThatCounts ==
  ASSUME NEW policy, NEW ids, NEW docs, ValidPolicy(policy, ids, docs),
         NEW id \in PackageIds(policy)
  PROVE  \E i \in DOMAIN policy :
           policy[i].package_id = id /\ MaterializationFor(policy, id) = policy[i]
  <1>1. DOMAIN policy \subseteq Nat BY DEF ValidPolicy, PolicyShape
  <1>2. PICK i \in DOMAIN policy : policy[i].package_id = id
    BY DEF PackageIds
  <1>3. EntriesFor(policy, id) = {i}
    BY <1>2 DEF EntriesFor, ValidPolicy
  <1>4. \A j \in EntriesFor(policy, id) : i <= j
    BY <1>1, <1>3
  <1>5. (CHOOSE k \in EntriesFor(policy, id) :
           \A j \in EntriesFor(policy, id) : k <= j) = i
    BY <1>3, <1>4
  <1>6. QED BY <1>2, <1>5 DEF MaterializationFor

\* Code lies only below packages that are not deferred.
LEMMA CodeNotDeferred ==
  ASSUME NEW t, ValidTopology(t), NEW e \in t.catalog, e.path \in MaterializedPaths(t)
  PROVE  ~Deferred(t.policy, e.id)
  <1>1. EntryAt(t, e.path) = e
    BY DEF EntryAt, ValidTopology, CatalogSemantics
  <1>2. QED BY <1>1 DEF ValidTopology, MaterializedPackage, NotReserved

LEMMA ValidTreesReserveLocalPackages ==
  ASSUME NEW t, ValidTree(t)
  PROVE  LocalPackagesReservedIn(t)
  <1> SUFFICES ASSUME "ADR-0093" \in DOMAIN t.docs, NEW id \in LocalPackages,
                      Materialized(t, id)
               PROVE  FALSE
    BY DEF LocalPackagesReservedIn
  <1>1. ValidTopology(t) /\ ValidReliability(t) BY DEF ValidTree
  <1>2. ~Deferred(t.policy, id)
    BY <1>1, CodeNotDeferred DEF Materialized
  <1>3. ValidPolicy(t.policy, CatalogIds(t), t.docs) BY <1>1 DEF ValidTopology
  <1>4. id \in PackageIds(t.policy)
    BY <1>3 DEF ValidPolicy, RequiredEntriesPresent
  <1>5. PICK i \in DOMAIN t.policy :
          t.policy[i].package_id = id /\ MaterializationFor(t.policy, id) = t.policy[i]
    BY <1>3, <1>4, EntryThatCounts
  <1>6. t.policy[i].state = "allowed"
    BY <1>2, <1>3, <1>4, <1>5 DEF Deferred, ValidPolicy, PolicyShape
  <1>7. MaterializationGates(t.policy[i], t.docs) BY <1>3 DEF ValidPolicy
  <1>8. "OD-021" \in t.policy[i].blocked_by
    BY <1>5, <1>7 DEF MaterializationGates, ExactGates, RequiredGates
  <1>9. Blocks(t, "OD-021") BY <1>1, LocalDecisionPending
  <1>10. "OD-021" \in UnresolvedGates(t.policy[i], t.docs)
    BY <1>7, <1>8, <1>9
    DEF MaterializationGates, GatesKnown, UnresolvedGates, Blocks, Unresolved
  <1>11. QED BY <1>6, <1>7, <1>10 DEF MaterializationGates

\* As long as ADR-0093 is there, no package of a local host has code on the
\* main branch: no sequence of changes gets past the four validators.
THEOREM GateReservesLocalPackages == Spec => []LocalPackagesReserved
  <1>1. ValidTree(base) => LocalPackagesReserved
    BY ValidTreesReserveLocalPackages DEF LocalPackagesReserved
  <1>2. QED BY <1>1, GateKeepsTreesValid, PTL

-----------------------------------------------------------------------------
(* Imports.                                                                *)

\* What is part of a relation without a cycle has none.
LEMMA PartOfAcyclic ==
  ASSUME NEW R, NEW Q, R \subseteq Q, Acyclic(Q)
  PROVE  Acyclic(R)
  <1> DEFINE nodes(E) == {e[1] : e \in E}
  <1>1. nodes(R) \subseteq nodes(Q) OBVIOUS
  <1>2. ASSUME NEW S \in SUBSET nodes(R) \ {{}},
               \A n \in S : \E m \in S : <<n, m>> \in R
        PROVE  FALSE
    <2>1. S \in SUBSET nodes(Q) \ {{}} BY <1>1
    <2>2. \A n \in S : \E m \in S : <<n, m>> \in Q BY <1>2
    <2>3. QED BY <2>1, <2>2 DEF Acyclic
  <1>3. QED BY <1>2 DEF Acyclic

\* The entry found at a path of the catalog is there, at that path.
LEMMA EntryAtPath ==
  ASSUME NEW t, NEW path \in Readable(t)
  PROVE  EntryAt(t, path) \in t.catalog /\ EntryAt(t, path).path = path
  BY DEF Readable, MaterializedPaths, CatalogPaths, EntryAt

\* Every import of a package is allowed by an edge.
LEMMA ImportsHaveEdges ==
  ASSUME NEW t, ValidTopology(t)
  PROVE  ImportGraph(t) \subseteq {<<edge.from, edge.to>> : edge \in t.edges}
  <1> SUFFICES ASSUME NEW path \in Readable(t), NEW s \in ProductionSources(t, path),
                      NEW x \in s.imports, x.kind = "package", x.name # Foundation
               PROVE  \E edge \in t.edges :
                        /\ edge.from = EntryAt(t, path).id
                        /\ edge.to = EntryNamed(t, x.name).id
    BY DEF ImportGraph
  <1>1. InternalSpecifier(t, EntryAt(t, path), x)
    BY DEF ValidTopology, InternalPackageImports
  <1>2. EdgeAllows(t, EntryAt(t, path), EntryNamed(t, x.name), x.to)
    BY <1>1 DEF InternalSpecifier
  <1>3. QED BY <1>2 DEF EdgeAllows

\* Every import of another feature of its package is allowed by an edge.
LEMMA SurfacesHaveEdges ==
  ASSUME NEW t, ValidTopology(t), NEW path \in Readable(t),
         NEW u \in UsedFeatureSurfaces(t, EntryAt(t, path))
  PROVE  \E edge \in t.featureEdges :
           /\ u = [package |-> edge.package, from |-> edge.from, to |-> edge.to,
                   surface |-> u.surface]
           /\ u.surface \in edge.imports
  <1> DEFINE e == EntryAt(t, path)
  <1>1. e.path = path BY EntryAtPath
  <1>2. PICK s \in ProductionSources(t, path) :
          \E x \in s.imports : CrossFeature(e, s, x) /\ u = UsedSurface(e, s, x)
    BY <1>1 DEF UsedFeatureSurfaces
  <1>3. PICK x \in s.imports : CrossFeature(e, s, x) /\ u = UsedSurface(e, s, x)
    BY <1>2
  <1>4. CrossFeatureSpecifier(t, e, s, x)
    BY DEF ValidTopology, InternalPackageImports
  <1>5. PICK edge \in t.featureEdges :
          /\ edge.package = e.id /\ edge.from = u.from /\ edge.to = u.to
          /\ u.surface \in edge.imports
    BY <1>3, <1>4 DEF CrossFeatureSpecifier
  <1>6. u = [package |-> e.id, from |-> u.from, to |-> u.to, surface |-> u.surface]
    BY <1>3 DEF UsedSurface
  <1>7. QED BY <1>5, <1>6

LEMMA ValidTreesLayerImports ==
  ASSUME NEW t, ValidTree(t)
  PROVE  ImportsLayeredIn(t)
  <1> USE DEF ValidTree
  <1>1. SourceDependencyPolicy(t) /\ FeatureDependencyPolicy(t) /\ CatalogSemantics(t)
    BY DEF ValidTopology
  <1>2. Acyclic(ImportGraph(t))
    BY <1>1, ImportsHaveEdges, PartOfAcyclic DEF SourceDependencyPolicy
  <1>3. FeatureImportGraph(t)
          \subseteq {<<<<edge.package, edge.from>>, <<edge.package, edge.to>>>> :
                       edge \in t.featureEdges}
    <2> SUFFICES ASSUME NEW path \in Readable(t),
                        NEW u \in UsedFeatureSurfaces(t, EntryAt(t, path))
                 PROVE  \E edge \in t.featureEdges :
                          edge.package = u.package /\ edge.from = u.from /\ edge.to = u.to
      BY DEF FeatureImportGraph
    <2>1. PICK edge \in t.featureEdges :
            u = [package |-> edge.package, from |-> edge.from, to |-> edge.to,
                 surface |-> u.surface]
      BY SurfacesHaveEdges
    <2>2. QED BY <2>1
  <1>4. Acyclic(FeatureImportGraph(t))
    BY <1>1, <1>3, PartOfAcyclic DEF FeatureDependencyPolicy
  <1>5. ASSUME NEW edge \in ImportGraph(t)
        PROVE  /\ EntryOf(t, edge[1]).role = "platform" => EntryOf(t, edge[2]).role = "platform"
               /\ EntryOf(t, edge[2]).role # "app" \/ EntryOf(t, edge[1]).role = "testing"
    <2>1. PICK d \in t.edges : edge = <<d.from, d.to>>
      BY <1>5, ImportsHaveEdges
    <2> DEFINE from == EntryOf(t, d.from)
               to == EntryOf(t, d.to)
    <2>2. to.role \in AllowedInternalDependencyRoles[from.role] /\ d.from \in CatalogIds(t)
      BY <1>1 DEF SourceDependencyPolicy
    <2>3. from \in t.catalog BY <2>2 DEF CatalogIds, EntryOf
    <2>4. from.role \in Roles BY <1>1, <2>3 DEF CatalogSemantics
    <2> HIDE DEF from, to
    <2>5. /\ from.role = "platform" => to.role = "platform"
          /\ to.role # "app" \/ from.role = "testing"
      BY <2>2, <2>4 DEF AllowedInternalDependencyRoles, Roles
    <2>6. QED BY <2>1, <2>5 DEF from, to
  <1>6. QED BY <1>2, <1>4, <1>5 DEF ImportsLayeredIn

\* The imports on the main branch form no cycle, neither between packages nor
\* between features, and lead from no platform to anything but a platform.
THEOREM GateLayersImports == Spec => []ImportsLayered
  <1>1. ValidTree(base) => ImportsLayered
    BY ValidTreesLayerImports DEF ImportsLayered
  <1>2. QED BY <1>1, GateKeepsTreesValid, PTL

LEMMA ValidTreesUseFeatureEdges ==
  ASSUME NEW t, ValidTree(t)
  PROVE  FeatureEdgesExactIn(t)
  <1> DEFINE surface(edge, s) ==
        [package |-> edge.package, from |-> edge.from, to |-> edge.to, surface |-> s]
  <1>1. ASSUME NEW path \in Readable(t), NEW u \in UsedFeatureSurfaces(t, EntryAt(t, path))
        PROVE  \E edge \in t.featureEdges : \E s \in edge.imports : u = surface(edge, s)
    BY SurfacesHaveEdges DEF ValidTree
  <1>2. ASSUME NEW edge \in t.featureEdges, NEW s \in edge.imports
        PROVE  \E path \in Readable(t) :
                 surface(edge, s) \in UsedFeatureSurfaces(t, EntryAt(t, path))
    BY DEF ValidTree, ValidTopology, InternalPackageImports, FeatureDependencyUsage
  <1>3. UNION {UsedFeatureSurfaces(t, EntryAt(t, path)) : path \in Readable(t)}
          = UNION {{surface(edge, s) : s \in edge.imports} : edge \in t.featureEdges}
    BY <1>1, <1>2
  <1>4. QED BY <1>3 DEF FeatureEdgesExactIn

\* The features of the main branch import of each other what they are allowed
\* to, and are allowed what they import.
THEOREM GateKeepsFeatureEdgesExact == Spec => []FeatureEdgesExact
  <1>1. ValidTree(base) => FeatureEdgesExact
    BY ValidTreesUseFeatureEdges DEF FeatureEdgesExact
  <1>2. QED BY <1>1, GateKeepsTreesValid, PTL

-----------------------------------------------------------------------------
(* Decisions.                                                              *)

\* A document below docs/ is governed as it is.
LEMMA GovernedDocuments ==
  ASSUME NEW t, NEW id \in DOMAIN t.docs
  PROVE  id \in DOMAIN GovernedMarkdown(t) /\ GovernedMarkdown(t)[id] = t.docs[id]
  BY DEF GovernedMarkdown

LEMMA ValidTreesWaitForDecisions ==
  ASSUME NEW t, ValidTree(t)
  PROVE  NoStaleBlockerIn(t)
  <1> DEFINE docs == GovernedMarkdown(t)
             pending == {id \in DOMAIN docs : docs[id].status \in Unresolved}
  <1> USE DEF Unresolved
  <1>1. ASSUME NEW id \in DOMAIN docs
        PROVE  docs[id].blocked_by \subseteq pending
    <2>1. Blockers(docs[id], docs)
      BY DEF ValidTree, ValidDocuments, ValidDocument
    <2>2. QED BY <2>1 DEF Blockers
  <1>2. ASSUME NEW item \in Items(t)
        PROVE  /\ item.blockedBy \subseteq pending
               /\ item.blockedBy = {} => item.qualification = "qualified"
    <2>1. \A id \in item.blockedBy : Blocks(t, id)
      BY DEF ValidTree, ValidReliability, QualificationReferences
    <2>2. item.blockedBy \subseteq pending
      BY <2>1, GovernedDocuments DEF Blocks, DecisionRegistry
    <2>3. QualificationState(item)
      BY DEF ValidTree, ValidReliability, ReliabilitySemantics, Items,
             QualificationFramework, ValidProfiles, DeploymentCapabilities
    <2>4. QED BY <2>2, <2>3 DEF QualificationState
  <1>3. ASSUME NEW i \in DOMAIN t.policy
        PROVE  t.policy[i].state = "deferred" <=> t.policy[i].blocked_by \intersect pending # {}
    <2> DEFINE entry == t.policy[i]
    <2>1. MaterializationGates(entry, t.docs) /\ entry.state \in {"allowed", "deferred"}
      BY DEF ValidTree, ValidTopology, ValidPolicy, PolicyShape
    <2>2. UnresolvedGates(entry, t.docs) = entry.blocked_by \intersect pending
      BY <2>1, GovernedDocuments DEF MaterializationGates, GatesKnown, UnresolvedGates
    <2>3. QED BY <2>1, <2>2 DEF MaterializationGates
  <1>4. QED BY <1>1, <1>2, <1>3 DEF NoStaleBlockerIn

\* Nothing on the main branch waits for a decision that was made: documents,
\* packages and release profiles, each judged by a program of its own.
THEOREM GateWaitsForDecisions == Spec => []NoStaleBlocker
  <1>1. ValidTree(base) => NoStaleBlocker
    BY ValidTreesWaitForDecisions DEF NoStaleBlocker
  <1>2. QED BY <1>1, GateKeepsTreesValid, PTL

-----------------------------------------------------------------------------
(* Owners and features.                                                    *)

\* The README of a feature of a package lies below src/features: unless
\* something on its way is called fixtures, validate-docs reads it.
LEMMA FeatureReadmeGoverned ==
  ASSUME NEW t, ValidTree(t), NEW path \in MaterializedPaths(t), NEW feature,
         ~Overlooked(path, feature), NEW id \in DOMAIN t.colocated,
         IsReadmeOf(t.colocated[id], path, feature)
  PROVE  id \in DOMAIN GovernedMarkdown(t) /\ GovernedMarkdown(t)[id] = t.colocated[id]
  <1> DEFINE d == t.colocated[id]
             below == <<"src", "features", feature>>
             S == STRING \union {"src", "features", feature}
  <1>1. d.at = path \o below /\ d.file = "README" BY DEF IsReadmeOf
  <1>2. path \in Seq(STRING)
    BY DEF MaterializedPaths, CatalogPaths, ValidTree, ValidTopology, CatalogSemantics
  <1>3. path \in Seq(S) /\ below \in Seq(S)
    <2>1. ASSUME NEW T, STRING \subseteq T PROVE path \in Seq(T)
      BY <1>2, <2>1, SeqMonotonic
    <2>2. path \in Seq(S) BY <2>1
    <2>3. below \in Seq(S) OBVIOUS
    <2>4. QED BY <2>2, <2>3
  <1>4. Len(path) \in Nat /\ DOMAIN path = 1..Len(path) BY <1>2, LenProperties
  <1>5. Len(below) = 3 /\ below[1] = "src" /\ below[2] = "features" /\ below[3] = feature
    OBVIOUS
  <1> HIDE DEF below, S
  <1>6. /\ d.at \in Seq(S) /\ Len(d.at) = Len(path) + 3
        /\ \A i \in 1..(Len(path) + 3) :
             d.at[i] = IF i <= Len(path) THEN path[i] ELSE below[i - Len(path)]
    <2>1. /\ path \o below \in Seq(S)
          /\ Len(path \o below) = Len(path) + Len(below)
          /\ \A i \in 1..(Len(path) + Len(below)) : (path \o below)[i] =
               IF i <= Len(path) THEN path[i] ELSE below[i - Len(path)]
      BY <1>3, ConcatProperties
    <2>2. QED BY <1>1, <1>5, <2>1
  <1>7. UnderFeatures(d.at)
    <2> DEFINE i == Len(path) + 1
    <2>1. i \in 1..Len(d.at) /\ i + 1 < Len(d.at) BY <1>4, <1>6
    <2>2. d.at[i] = "src" /\ d.at[i + 1] = "features" BY <1>4, <1>5, <1>6
    <2>3. QED BY <2>1, <2>2 DEF UnderFeatures
  <1>8. "fixtures" \notin Range(d.at)
    <2>1. DOMAIN d.at = 1..(Len(path) + 3) BY <1>6, LenProperties
    <2> SUFFICES ASSUME NEW i \in 1..(Len(path) + 3), d.at[i] = "fixtures" PROVE FALSE
      BY <2>1 DEF Range
    <2>2. CASE i <= Len(path)
      BY <1>4, <1>6, <2>2 DEF Overlooked, Range
    <2>3. CASE ~(i <= Len(path))
      <3>1. i - Len(path) \in {1, 2, 3} BY <1>4, <2>3
      <3>2. below[i - Len(path)] \in {"src", "features", feature} BY <1>5, <3>1
      <3>3. QED BY <1>6, <2>3, <3>2 DEF Overlooked
    <2>4. QED BY <2>2, <2>3
  <1>9. id \in ColocatedMarkdown(t) BY <1>1, <1>7, <1>8 DEF ColocatedMarkdown
  <1>10. id \notin DOMAIN t.docs BY <1>9 DEF ValidTree, UniqueIds
  <1>11. QED BY <1>9, <1>10 DEF GovernedMarkdown

LEMMA ValidTreesHaveAuthority ==
  ASSUME NEW t, ValidTree(t)
  PROVE  CodeHasAuthorityIn(t)
  <1> DEFINE docs == GovernedMarkdown(t)
             found == ReachableIds(t, docs)
  <1>1. /\ found = DOMAIN docs
        /\ \A id \in DOMAIN docs : Blockers(docs[id], docs)
    BY DEF ValidTree, ValidDocuments, ValidDocument
  <1>2. ASSUME NEW id \in DOMAIN docs, docs[id].status \in {"accepted", "active"}
        PROVE  Settles(docs[id])
    BY <1>1, <1>2 DEF Blockers, Settles
  <1> SUFFICES ASSUME NEW path \in MaterializedPaths(t)
               PROVE  LET e == EntryAt(t, path) IN
                      /\ e.owner_document \in found /\ Settles(docs[e.owner_document])
                      /\ \A feature \in FeatureNames(t, path) : ~Overlooked(path, feature) =>
                             \E id \in found : /\ IsReadmeOf(docs[id], path, feature)
                                               /\ docs[id].status = "accepted" /\ Settles(docs[id])
                                               /\ e.owner_document \in docs[id].related
    BY DEF CodeHasAuthorityIn
  <1> DEFINE e == EntryAt(t, path)
  <1>3. e \in t.catalog /\ e.path = path
    BY DEF MaterializedPaths, CatalogPaths, EntryAt
  <1>4. MaterializedPackage(t, e) /\ e.owner_document \in DOMAIN t.docs
    BY <1>3 DEF ValidTree, ValidTopology, CatalogSemantics
  <1>5. e.owner_document \in found /\ Settles(docs[e.owner_document])
    <2>1. e.owner_document \in DOMAIN docs /\ docs[e.owner_document] = t.docs[e.owner_document]
      BY <1>4, GovernedDocuments
    <2>2. docs[e.owner_document].status \in {"accepted", "active"}
      BY <1>4, <2>1 DEF MaterializedPackage, OwnerAccepted, AcceptedOwnerStatuses
    <2>3. QED BY <1>1, <1>2, <2>1, <2>2
  <1>6. ASSUME NEW feature \in FeatureNames(t, path), ~Overlooked(path, feature)
        PROVE  \E id \in found : /\ IsReadmeOf(docs[id], path, feature)
                                 /\ docs[id].status = "accepted" /\ Settles(docs[id])
                                 /\ e.owner_document \in docs[id].related
    <2>1. PICK id \in DOMAIN t.colocated :
            /\ IsReadmeOf(t.colocated[id], path, feature)
            /\ ValidFeatureMetadata(t.colocated[id], e.owner_document)
      BY <1>3, <1>4, <1>6 DEF MaterializedPackage, FeatureDocumentation
    <2>2. id \in DOMAIN docs /\ docs[id] = t.colocated[id]
      BY <1>6, <2>1, FeatureReadmeGoverned
    <2>3. docs[id].status = "accepted" /\ e.owner_document \in docs[id].related
      BY <2>1, <2>2 DEF ValidFeatureMetadata
    <2>4. QED BY <1>1, <1>2, <2>1, <2>2, <2>3
  <1>7. QED BY <1>5, <1>6

\* No sequence of changes leaves code on the main branch whose owner, or the
\* README of one of its features, is not accepted, waits for a decision, or
\* cannot be found: topology and documents are judged by two programs.
THEOREM GateGivesCodeAuthority == Spec => []CodeHasAuthority
  <1>1. ValidTree(base) => CodeHasAuthority
    BY ValidTreesHaveAuthority DEF CodeHasAuthority
  <1>2. QED BY <1>1, GateKeepsTreesValid, PTL

-----------------------------------------------------------------------------
(* Changes.                                                                *)

\* What is governed is a file of the tree.
LEMMA GovernedIsFile ==
  ASSUME NEW t, NEW id \in DOMAIN GovernedMarkdown(t)
  PROVE  <<PathOf(GovernedMarkdown(t)[id]), GovernedMarkdown(t)[id]>> \in Snapshot(t)
  BY DEF GovernedMarkdown, ColocatedMarkdown, Snapshot, DocumentFiles

\* No change of what a governed document anchors as required reaches the main
\* branch and leaves that document as it was, deletions aside.
THEOREM GateReviewsChanges == Spec => ReviewedChanges
  <1> DEFINE Step ==
               \A file \in Snapshot(base') \ Snapshot(base) :
                 \A id \in DOMAIN GovernedMarkdown(base) :
                   LET d == GovernedMarkdown(base)[id] IN
                   RequiredBy(d, file[1]) => ~Kept(d, base')
  <1>1. [Next]_vars => [Step]_base
    <2> SUFFICES ASSUME [Next]_vars, base' # base,
                        NEW file \in Snapshot(base') \ Snapshot(base),
                        NEW id \in DOMAIN GovernedMarkdown(base),
                        RequiredBy(GovernedMarkdown(base)[id], file[1]),
                        Kept(GovernedMarkdown(base)[id], base')
                 PROVE  FALSE
      OBVIOUS
    <2> DEFINE d == GovernedMarkdown(base)[id]
               docs == GovernedMarkdown(base')
               changed == ChangedPaths(base, base')
    <2>1. \E a \in Range(d.anchors) :
            a.enforcement = "required" /\ MatchesAnchor(file[1], a.pattern)
      BY DEF RequiredBy
    <2>2. TakeOver
      BY DEF Next, vars, Change, Drop
    <2>3. StrictImpact(base, base') /\ OneFilePerPath(base')
      BY <2>2 DEF TakeOver, ExitCode
    <2>4. PICK kept \in DOMAIN docs : docs[kept] = d
      BY DEF Kept
    <2>5. file[1] \in changed BY DEF ChangedPaths
    <2>6. kept \in RequiredImpacts(docs, changed)
      BY <2>1, <2>4, <2>5 DEF RequiredImpacts
    <2>7. PathOf(d) \in changed
      BY <2>3, <2>4, <2>6 DEF StrictImpact
    <2>8. PICK new \in Snapshot(base') \ Snapshot(base) : new[1] = PathOf(d)
      BY <2>7 DEF ChangedPaths
    <2>9. <<PathOf(d), d>> \in Snapshot(base) /\ <<PathOf(d), d>> \in Snapshot(base')
      BY <2>4, GovernedIsFile
    <2>10. new = <<PathOf(d), d>>
      BY <2>3, <2>8, <2>9 DEF OneFilePerPath, Clashes
    <2>11. QED BY <2>8, <2>9, <2>10
  <1>2. QED BY <1>1, PTL DEF Spec, ReviewedChanges

=============================================================================
