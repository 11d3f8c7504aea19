------------------------- MODULE MaterializationPolicy -------------------------
(***************************************************************************)
(* The policy that says which catalogued packages may become code          *)
(* (scripts/architecture/package-materialization-validation.mjs).          *)
(*                                                                         *)
(* `policy' is the sequence of entries of package-materialization-         *)
(* policy.yaml, `docs' the documents by their id (type, status and         *)
(* resolved_by of each), `ids' the package ids of the catalog.  What the   *)
(* module collects as errors is a conjunct of ValidPolicy here.            *)
(***************************************************************************)
EXTENDS Naturals, Sequences

NoDecision == "null"

Unresolved == {"deferred", "open", "proposed"}
AcceptedOwnerStatuses == {"accepted", "active"}

LocalPackages ==
    {"app.local-supervisor", "app.orchestrator-local", "sdk.orchestrator-local-host"}
RequiredGates == [id \in LocalPackages |-> {"OD-021", "OD-035", "OD-040"}]

Accepted(id, docs) == id \in DOMAIN docs /\ docs[id].status \in AcceptedOwnerStatuses

-----------------------------------------------------------------------------
PackageIds(policy) == {policy[i].package_id : i \in DOMAIN policy}

\* The entry that counts for a package: the first one that names it.
EntriesFor(policy, id) == {i \in DOMAIN policy : policy[i].package_id = id}
MaterializationFor(policy, id) ==
    policy[CHOOSE i \in EntriesFor(policy, id) :
               \A j \in EntriesFor(policy, id) : i <= j]

Deferred(policy, id) ==
    /\ id \in PackageIds(policy)
    /\ MaterializationFor(policy, id).state = "deferred"

\* The schema of the file, as far as the rules below lean on it.
PolicyShape(policy) ==
    /\ DOMAIN policy \subseteq Nat
    /\ \A i \in DOMAIN policy : /\ policy[i].state \in {"allowed", "deferred"}
                                /\ policy[i].blocked_by # {}

RequiredEntriesPresent(policy, docs) ==
    "ADR-0093" \in DOMAIN docs => LocalPackages \subseteq PackageIds(policy)

UnresolvedGates(entry, docs) ==
    {gate \in entry.blocked_by :
        /\ gate \in DOMAIN docs
        /\ docs[gate].type = "open-decision"
        /\ docs[gate].status \in Unresolved}

GatesKnown(entry, docs) ==
    \A gate \in entry.blocked_by :
        gate \in DOMAIN docs /\ docs[gate].type = "open-decision"

ExactGates(entry) ==
    entry.package_id \in LocalPackages => entry.blocked_by = RequiredGates[entry.package_id]

DecisionAccepted(entry, docs) ==
    /\ Accepted(entry.decision, docs)
    /\ docs[entry.decision].type = "adr"

DecisionResolvesGate(entry, docs) ==
    entry.package_id \in LocalPackages
        => /\ "OD-040" \in DOMAIN docs
           /\ docs["OD-040"].resolved_by = entry.decision

MaterializationGates(entry, docs) ==
    /\ ExactGates(entry)
    /\ GatesKnown(entry, docs)
    /\ entry.state = "deferred" => /\ UnresolvedGates(entry, docs) # {}
                                   /\ entry.decision = NoDecision
    /\ entry.state = "allowed" => /\ UnresolvedGates(entry, docs) = {}
                                  /\ DecisionAccepted(entry, docs)
                                  /\ DecisionResolvesGate(entry, docs)

ValidPolicy(policy, ids, docs) ==
    /\ PolicyShape(policy)
    /\ RequiredEntriesPresent(policy, docs)
    /\ \A i, j \in DOMAIN policy : policy[i].package_id = policy[j].package_id => i = j
    /\ PackageIds(policy) \subseteq ids
    /\ \A i \in DOMAIN policy : MaterializationGates(policy[i], docs)
=============================================================================
