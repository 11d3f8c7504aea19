--------------------------- MODULE ReliabilityCatalog ---------------------------
(***************************************************************************)
(* What validate-reliability-foundation.mjs and qualification-validation.mjs *)
(* demand of the reliability catalog of a tree, t.reliability:             *)
(*   framework      [id, qualification, blockedBy, decisionRefs,           *)
(*                   conformanceRefs]                                      *)
(*   profiles       sequence of the same with releaseScope, product,       *)
(*                  commercial and requiredCapabilities                    *)
(*   capabilities   sequence of the same with profiles                     *)
(*   prohibited, attributes   metric attributes: a set, and a sequence of  *)
(*                  [id, maxDistinct]                                      *)
(*   indicators, invariants, budgets   sequences of [id, local, owner,     *)
(*                  status, ...]                                           *)
(* and of t.docs, the documents by id, t.owners, the registered owners, and *)
(* t.evidence, the files below architecture/qualification-evidence.        *)
(***************************************************************************)
EXTENDS Integers, FiniteSets, SequencesExt

MaximumSeriesCombinations == 1024
RequiredProhibitedAttributes ==
    {"agent.id", "operation.id", "project.id", "run.id", "runtime.session.id", "span.id",
     "team.id", "tenant.id", "trace.id", "url.full", "url.path", "user.id", "workspace.path"}

Profile(scope, product, commercial, capabilities, blockers) ==
    [releaseScope |-> scope, product |-> product, commercial |-> commercial,
     requiredCapabilities |-> capabilities, blockedBy |-> blockers]

ServerProfiles == {"connected-self-hosted", "managed-saas", "standalone-self-hosted"}
RequiredDeploymentProfiles == ServerProfiles \union {"fully-local"}

ExpectedProfileDefinitions ==
    [id \in RequiredDeploymentProfiles |->
        CASE id = "managed-saas" ->
               Profile("v1-target", "managed-platform", "optional-managed-platform",
                       {"server-runtime-execution"}, {"OD-003", "OD-012"})
          [] id = "standalone-self-hosted" ->
               Profile("v1-target", "standalone", "none",
                       {"server-runtime-execution"}, {"OD-003", "OD-012"})
          [] id = "connected-self-hosted" ->
               Profile("future", "standalone", "optional-managed-platform",
                       {"server-runtime-execution"}, {"OD-003", "OD-012"})
          [] id = "fully-local" ->
               Profile("v1-target", "local-standalone", "none",
                       {"local-host-runtime-execution"},
                       {"OD-001", "OD-003", "OD-009", "OD-021"})]

RequiredCapabilityIds ==
    {"server-runtime-execution", "local-host-runtime-execution",
     "local-device-execution", "managed-commercial-entitlements"}
ExpectedDeploymentCapabilities ==
    [id \in RequiredCapabilityIds |->
        CASE id = "server-runtime-execution" ->
               [blockedBy |-> {"OD-004"}, profiles |-> ServerProfiles]
          [] id = "local-host-runtime-execution" ->
               [blockedBy |-> {"OD-004", "OD-021"}, profiles |-> {"fully-local"}]
          [] id = "local-device-execution" ->
               [blockedBy |-> {"OD-038"}, profiles |-> ServerProfiles]
          [] id = "managed-commercial-entitlements" ->
               [blockedBy |-> {"OD-037"}, profiles |-> {"connected-self-hosted", "managed-saas"}]]

FrameworkBlockers == {"OD-039"}

-----------------------------------------------------------------------------
(* Qualification.                                                          *)

Profiles(t) == Range(t.reliability.profiles)
Capabilities(t) == Range(t.reliability.capabilities)
Items(t) == {t.reliability.framework} \union Profiles(t) \union Capabilities(t)
ProfileIds(t) == {p.id : p \in Profiles(t)}
CapabilityIds(t) == {c.id : c \in Capabilities(t)}

DistinctIds(items) == \A i, j \in DOMAIN items : items[i].id = items[j].id => i = j

\* The states are those of the schema.
QualificationState(item) ==
    /\ item.qualification \in {"blocked", "deferred", "qualified"}
    /\ item.qualification \in {"blocked", "deferred"} => item.blockedBy # {}
    /\ item.qualification = "qualified" =>
           item.blockedBy = {} /\ item.decisionRefs # {} /\ item.conformanceRefs # {}

QualificationFramework(t) ==
    LET framework == t.reliability.framework IN
    /\ QualificationState(framework)
    /\ framework.blockedBy = FrameworkBlockers
    /\ framework.qualification # "qualified"
    /\ \A item \in Profiles(t) \union Capabilities(t) : item.qualification # "qualified"

MatchesDefinition(profile) ==
    profile.id \in RequiredDeploymentProfiles =>
        Profile(profile.releaseScope, profile.product, profile.commercial,
                profile.requiredCapabilities, profile.blockedBy)
            = ExpectedProfileDefinitions[profile.id]

ValidProfiles(t) ==
    /\ DistinctIds(t.reliability.profiles)
    /\ \A p \in Profiles(t) :
           /\ QualificationState(p)
           /\ ~(p.releaseScope = "v1-target" /\ p.qualification = "deferred")
           /\ MatchesDefinition(p)
    /\ RequiredDeploymentProfiles \subseteq ProfileIds(t)

CapabilityProfiles(t, capability) ==
    /\ capability.id \in RequiredCapabilityIds
    /\ [blockedBy |-> capability.blockedBy, profiles |-> capability.profiles]
           = ExpectedDeploymentCapabilities[capability.id]
    /\ capability.profiles \subseteq ProfileIds(t)

RequiredCapabilities(t) ==
    /\ RequiredCapabilityIds \subseteq CapabilityIds(t)
    /\ \A p \in Profiles(t) : p.qualification = "qualified" =>
           \A id \in p.requiredCapabilities :
               \E c \in Capabilities(t) : c.id = id /\ c.qualification = "qualified"

DeploymentCapabilities(t) ==
    /\ DistinctIds(t.reliability.capabilities)
    /\ \A c \in Capabilities(t) : QualificationState(c) /\ CapabilityProfiles(t, c)
    /\ RequiredCapabilities(t)

\* The decisions are read from two directories, by the id they declare.
DecisionDirectories == {<<"docs", "decisions">>, <<"docs", "open-decisions">>}
DecisionRegistry(t) ==
    {id \in DOMAIN t.docs : /\ t.docs[id].at \in DecisionDirectories
                            /\ t.docs[id].file # "README"}

\* Mutant: a blocker may have been resolved since.
BlockerKnown(t, id) == id \in DecisionRegistry(t)

Blocks(t, id) ==
    /\ id \in DecisionRegistry(t)
    /\ t.docs[id].status \in {"deferred", "open", "proposed"}

QualificationReferences(t) ==
    \A item \in Items(t) :
        /\ \A id \in item.blockedBy : Blocks(t, id)
        /\ \A id \in item.decisionRefs :
               /\ id \in DecisionRegistry(t)
               /\ t.docs[id].status \in {"accepted", "active", "resolved"}
        /\ item.conformanceRefs \subseteq t.evidence

-----------------------------------------------------------------------------
(* Indicators, invariants and budgets.                                     *)

AttributeRegistry(r) ==
    /\ DistinctIds(r.attributes)
    /\ \A a \in Range(r.attributes) : a.id \notin r.prohibited
    /\ RequiredProhibitedAttributes \subseteq r.prohibited

AttributeOf(r, id) == CHOOSE a \in Range(r.attributes) : a.id = id

Attributes(r, allowed) ==
    /\ \A i \in DOMAIN allowed : /\ allowed[i] \notin r.prohibited
                                 /\ \E a \in Range(r.attributes) : a.id = allowed[i]
    /\ FoldLeft(LAMBDA n, id : n * AttributeOf(r, id).maxDistinct, 1, allowed)
           <= MaximumSeriesCombinations

OwnedItems(t) ==
    LET all == t.reliability.indicators \o t.reliability.invariants \o t.reliability.budgets IN
    /\ DistinctIds(all)
    /\ \A item \in Range(all) : item.local /\ item.owner \in t.owners

MetricSubjects(t) ==
    \A item \in Range(t.reliability.indicators) \union Range(t.reliability.budgets) :
        /\ item.profiles \subseteq ProfileIds(t)
        /\ Attributes(t.reliability, item.allowedAttributes)

\* An item has a set of at most one objective [percent, approvedAt, reviewAfter].
Objective(item) ==
    /\ item.status \in {"active", "aspirational"} <=> item.objective # {}
    /\ \A o \in item.objective :
           /\ o.percent > 0 /\ o.percent < 100
           /\ o.reviewAfter > o.approvedAt

\* and a budget one of at most one limit.
ResourceBudgetPolicies(r) ==
    \A b \in Range(r.budgets) : b.status = "active" <=> b.limits # {}

ReliabilitySemantics(t) ==
    /\ QualificationFramework(t) /\ ValidProfiles(t) /\ DeploymentCapabilities(t)
    /\ AttributeRegistry(t.reliability)
    /\ OwnedItems(t) /\ MetricSubjects(t)
    /\ \A item \in Range(t.reliability.indicators) : Objective(item)
    /\ ResourceBudgetPolicies(t.reliability)

ValidReliability(t) == ReliabilitySemantics(t) /\ QualificationReferences(t)
=============================================================================
