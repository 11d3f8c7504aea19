---------------------------- MODULE HostDiscovery ----------------------------
(***************************************************************************)
(* The host-discovery feature: createHostDiscovery and the discover calls  *)
(* it answers.  A call copies its query, awaits the source, and judges     *)
(* what the source resolved with by the clock of that moment.  Around it,  *)
(* callers go on changing the objects they passed, the source takes its    *)
(* time or throws, and the clock steps either way or fails.                *)
(*                                                                         *)
(* Integers are BigInts: Int64 and Uint64 bound what is accepted, and      *)
(* arithmetic on accepted values does not wrap.                            *)
(***************************************************************************)
EXTENDS Integers, FiniteSets, SequencesExt

CONSTANTS
    Call,             \* calls of discover
    Target,           \* well-formed target identities
    Capability,       \* well-formed capability identities
    CapabilityLimit,  \* maximumCapabilityCount (64 in the code)
    Int64Maximum,     \* largest instant
    Uint64Maximum,    \* largest duration and protocol version
    RawQuery,         \* what callers pass: well-formed or not
    RawResult,        \* what the source resolves with: well-formed or not
    RawPolicy,        \* freshness policies passed: well-formed or not
    RawInstant,       \* what the clock returns: well-formed or not
    Throws,           \* the outcome of a dependency that throws
    None

ASSUME HostDiscoveryAssumption ==
    /\ Int64Maximum \in Nat
    /\ Uint64Maximum \in Nat
    /\ Throws # None
    /\ None \notin RawResult \union RawQuery \union RawPolicy
    /\ Throws \notin RawResult
    /\ Throws \notin Int

VARIABLES
    dependencies,  \* the caller's dependency object: its ports and its policy
    policy,        \* the policy captured at construction, or None
    built,         \* the policy passed to the construction (history)
    clock,         \* what the clock would return now
    argument,      \* the query object of each call, which its caller may change
    asked,         \* its value when the call was made (history)
    query,         \* the copy the call works on
    clockAtCall,   \* the clock when the call was made (history)
    sourced,       \* what the source resolved or rejected with
    at,            \* where each call stands
    result         \* its answer

vars == <<dependencies, policy, built, clock, argument, asked, query,
          clockAtCall, sourced, at, result>>

-----------------------------------------------------------------------------
(* What the constructors of the model accept. *)

Int64 == (-Int64Maximum - 1)..Int64Maximum
Uint64 == 0..Uint64Maximum
ProtocolVersion == 1..Uint64Maximum

ProtocolRange ==
    {r \in [minimum : ProtocolVersion, maximum : ProtocolVersion] :
        r.minimum <= r.maximum}

\* A list of at most CapabilityLimit well-formed names, none twice.
CapabilityList ==
    {s \in Seq(Capability) : Len(s) <= CapabilityLimit /\ IsInjective(s)}

FreshnessEvidence ==
    {f \in [kind : {"expiry", "liveness"}, observedAt : Int64, validUntil : Int64] :
        f.observedAt <= f.validUntil}

FreshnessPolicy == [maximumFutureSkew : Uint64, maximumObservationAge : Uint64]

Query == [targetId : Target, supportedProtocolRange : ProtocolRange,
          requiredCapabilities : SUBSET Capability]

\* `identity` stands for the version, the boot generation, the evidence
\* reference and the two instance names, which are validated and passed on.
Observation == [targetId : Target, protocolRange : ProtocolRange,
                capabilities : SUBSET Capability,
                freshness : FreshnessEvidence, identity : {"wellFormed"}]

\* Mutant: the order of the two ends of the range is not checked.
UnorderedQuery(raw) ==
    IF raw \in [targetId : Target,
                supportedProtocolRange : [minimum : ProtocolVersion, maximum : ProtocolVersion],
                requiredCapabilities : CapabilityList]
      THEN [raw EXCEPT !.requiredCapabilities = ToSet(@)]
      ELSE None

SnapshotQuery(raw) ==
    IF raw \in [targetId : Target, supportedProtocolRange : ProtocolRange,
                requiredCapabilities : CapabilityList]
      THEN [raw EXCEPT !.requiredCapabilities = ToSet(@)]
      ELSE None

SnapshotObservation(raw) ==
    IF raw \in [targetId : Target, protocolRange : ProtocolRange,
                capabilities : CapabilityList,
                freshness : FreshnessEvidence, identity : {"wellFormed"}]
      THEN [raw EXCEPT !.capabilities = ToSet(@)]
      ELSE None

\* The reasons the source may give with each kind of result.
GivenReason ==
    [kind : {"stale"},
     reason : {"liveness-unproven", "ownership-unproven", "superseded"}]
    \union [kind : {"rejected"}, reason : {"foreign-identity", "malformed", "unsafe-state"}]
    \union [kind : {"unavailable"},
            reason : {"permission-denied", "source-failure", "temporarily-unavailable"}]

\* A closed result of the source other than an observation.
ClosedResult(raw) ==
    /\ raw.kind \in {"not-found", "stale", "rejected", "unavailable"}
    /\ raw.targetId \in Target
    /\ \/ raw.kind = "not-found"
       \/ [kind |-> raw.kind, reason |-> raw.reason] \in GivenReason

-----------------------------------------------------------------------------
(* The answers.  Every one but "invalid-query" and "candidate" also echoes *)
(* the target of the query, which is left out here.                        *)

Rejected(reason) == [kind |-> "rejected", reason |-> reason]
Unavailable(reason) == [kind |-> "unavailable", reason |-> reason]

SameTarget(left, right) == left = right

\* What a result of the source answers by itself; None when it holds an
\* observation of the requested target that is still to be judged.
SourceTerminalResult(q, raw) ==
    IF raw = Throws THEN Unavailable("source-failure")
    ELSE IF raw.kind = "observed"
      THEN LET seen == SnapshotObservation(raw.observation)
           IN  IF seen = None THEN Rejected("invalid-observation")
               ELSE IF ~SameTarget(seen.targetId, q.targetId) THEN Rejected("target-mismatch")
               ELSE None
    ELSE IF ~ClosedResult(raw) THEN Rejected("invalid-source-response")
    ELSE IF ~SameTarget(raw.targetId, q.targetId) THEN Rejected("target-mismatch")
    ELSE IF raw.kind = "not-found" THEN [kind |-> "not-found"]
    ELSE [kind |-> IF raw.kind = "rejected" THEN "source-rejected" ELSE raw.kind,
          reason |-> raw.reason]

\* Mutant: the age is computed in 64 bits.
WrappedAge(now, seen) ==
    LET age == now - seen.freshness.observedAt
    IN  IF age > Int64Maximum THEN age - 2 * (Int64Maximum + 1) ELSE age

ObservationAge(now, seen) == now - seen.freshness.observedAt

\* The refusal of an observation that is not fresh at `now`, or None.
EvaluateFreshness(seen, now, p) ==
    IF now >= seen.freshness.validUntil
      THEN [kind |-> "expired", validUntil |-> seen.freshness.validUntil]
    ELSE IF seen.freshness.observedAt > now + p.maximumFutureSkew
      THEN Rejected("future-observation")
    ELSE IF ObservationAge(now, seen) > 0
              /\ ObservationAge(now, seen) > p.maximumObservationAge
      THEN [kind |-> "stale", reason |-> "observation-too-old"]
    ELSE None

CommonMinimum(q, seen) ==
    IF q.supportedProtocolRange.minimum > seen.protocolRange.minimum
      THEN q.supportedProtocolRange.minimum ELSE seen.protocolRange.minimum

CommonMaximum(q, seen) ==
    IF q.supportedProtocolRange.maximum < seen.protocolRange.maximum
      THEN q.supportedProtocolRange.maximum ELSE seen.protocolRange.maximum

ProtocolCompatible(q, seen) == CommonMinimum(q, seen) <= CommonMaximum(q, seen)

EvaluateCompatibility(q, seen) ==
    LET missing == q.requiredCapabilities \ seen.capabilities
    IN  IF ProtocolCompatible(q, seen) /\ missing = {}
          THEN [kind |-> "candidate", observation |-> seen,
                proposedProtocolVersion |-> CommonMaximum(q, seen)]
          ELSE [kind |-> "incompatible", missingCapabilities |-> missing,
                protocolCompatible |-> ProtocolCompatible(q, seen),
                advertisedCapabilities |-> seen.capabilities,
                advertisedProtocolRange |-> seen.protocolRange]

-----------------------------------------------------------------------------
Init ==
    /\ dependencies \in [ports : BOOLEAN, freshnessPolicy : RawPolicy]
    /\ policy = None /\ built = None
    /\ clock \in RawInstant
    /\ argument \in [Call -> RawQuery]
    /\ asked = [c \in Call |-> None]
    /\ query = [c \in Call |-> None]
    /\ clockAtCall = [c \in Call |-> None]
    /\ sourced = [c \in Call |-> None]
    /\ at = [c \in Call |-> "idle"]
    /\ result = [c \in Call |-> None]

\* createHostDiscovery: it throws unless the ports are operations and the
\* policy is well-formed, and keeps a copy of all of them.
CreateHostDiscovery ==
    /\ built = None
    /\ policy' = IF dependencies.ports /\ dependencies.freshnessPolicy \in FreshnessPolicy
                   THEN dependencies.freshnessPolicy ELSE None
    /\ built' = dependencies.freshnessPolicy
    /\ UNCHANGED <<dependencies, clock, argument, asked, query, clockAtCall,
                   sourced, at, result>>

Answer(c, r) ==
    /\ result' = [result EXCEPT ![c] = r]
    /\ at' = [at EXCEPT ![c] = "answered"]

\* discover up to its await: the query is copied and the source asked once.
Discover(c) ==
    /\ policy # None
    /\ at[c] = "idle"
    /\ asked' = [asked EXCEPT ![c] = argument[c]]
    /\ clockAtCall' = [clockAtCall EXCEPT ![c] = clock]
    /\ query' = [query EXCEPT ![c] = SnapshotQuery(argument[c])]
    /\ IF SnapshotQuery(argument[c]) = None
         THEN Answer(c, Rejected("invalid-query"))
         ELSE /\ at' = [at EXCEPT ![c] = "reading"]
              /\ UNCHANGED result
    /\ UNCHANGED <<dependencies, policy, built, clock, argument, sourced>>

\* The source's promise resolves or rejects.
SourceSettles(c) ==
    /\ at[c] = "reading" /\ sourced[c] = None
    /\ \E raw \in RawResult \union {Throws} : sourced' = [sourced EXCEPT ![c] = raw]
    /\ UNCHANGED <<dependencies, policy, built, clock, argument, asked, query,
                   clockAtCall, at, result>>

Settled(c) == at[c] = "reading" /\ sourced[c] # None

\* Mutant: the caller's query object is read again after the await.
LiveQuery(c) ==
    IF SnapshotQuery(argument[c]) = None THEN query[c] ELSE SnapshotQuery(argument[c])

\* The query the call judges by.
JudgedQuery(c) == query[c]

\* Mutant: the clock is read before the source.
EarlyInstant(c) == clockAtCall[c]

\* The instant the call judges by.
JudgedInstant(c) == clock

\* The policy the call judges by.
JudgedPolicy(c) == policy

Seen(c) == SnapshotObservation(sourced[c].observation)

\* The call resumes and the source has said all there is to say.
AnswerFromSource(c) ==
    /\ Settled(c)
    /\ SourceTerminalResult(JudgedQuery(c), sourced[c]) # None
    /\ Answer(c, SourceTerminalResult(JudgedQuery(c), sourced[c]))
    /\ UNCHANGED <<dependencies, policy, built, clock, argument, asked, query,
                   clockAtCall, sourced>>

\* Mutant: a clock that returns no instant is not caught.
ThrownClockOnly(c) ==
    /\ Settled(c)
    /\ SourceTerminalResult(JudgedQuery(c), sourced[c]) = None
    /\ JudgedInstant(c) = Throws
    /\ Answer(c, Unavailable("clock-failure"))
    /\ UNCHANGED <<dependencies, policy, built, clock, argument, asked, query,
                   clockAtCall, sourced>>

\* The call resumes with an observation, and the clock throws or returns no
\* instant.
AnswerClockFailure(c) ==
    /\ Settled(c)
    /\ SourceTerminalResult(JudgedQuery(c), sourced[c]) = None
    /\ JudgedInstant(c) \notin Int64
    /\ Answer(c, Unavailable("clock-failure"))
    /\ UNCHANGED <<dependencies, policy, built, clock, argument, asked, query,
                   clockAtCall, sourced>>

\* The call resumes with an observation and judges it.
AnswerFromObservation(c) ==
    /\ Settled(c)
    /\ SourceTerminalResult(JudgedQuery(c), sourced[c]) = None
    /\ JudgedInstant(c) \in Int64
    /\ LET refusal == EvaluateFreshness(Seen(c), JudgedInstant(c), JudgedPolicy(c))
       IN  Answer(c, IF refusal # None THEN refusal
                     ELSE EvaluateCompatibility(JudgedQuery(c), Seen(c)))
    /\ UNCHANGED <<dependencies, policy, built, clock, argument, asked, query,
                   clockAtCall, sourced>>

-----------------------------------------------------------------------------
(* The environment.  Changes that no call could notice are left out: those *)
(* of a query before its call and after its answer.                        *)

ChangeDependencies ==
    /\ policy # None
    /\ dependencies' \in [ports : BOOLEAN, freshnessPolicy : RawPolicy]
    /\ UNCHANGED <<policy, built, clock, argument, asked, query, clockAtCall,
                   sourced, at, result>>

ChangeQuery(c) ==
    /\ at[c] = "reading"
    /\ \E raw \in RawQuery : argument' = [argument EXCEPT ![c] = raw]
    /\ UNCHANGED <<dependencies, policy, built, clock, asked, query, clockAtCall,
                   sourced, at, result>>

ClockMoves ==
    /\ clock' \in RawInstant
    /\ UNCHANGED <<dependencies, policy, built, argument, asked, query,
                   clockAtCall, sourced, at, result>>

Next ==
    \/ CreateHostDiscovery
    \/ \E c \in Call :
         \/ Discover(c) \/ SourceSettles(c)
         \/ AnswerFromSource(c) \/ AnswerClockFailure(c) \/ AnswerFromObservation(c)
         \/ ChangeQuery(c)
    \/ ChangeDependencies
    \/ ClockMoves

Spec == Init /\ [][Next]_vars

\* A continuation that can run is run; nothing is asked of the source.
Resume(c) == AnswerFromSource(c) \/ AnswerClockFailure(c) \/ AnswerFromObservation(c)
FairSpec == Spec /\ \A c \in Call : WF_vars(Resume(c))

-----------------------------------------------------------------------------
Result ==
    [kind : {"not-found"}]
    \union {r \in GivenReason : r.kind # "rejected"}
    \union [kind : {"source-rejected"},
            reason : {"foreign-identity", "malformed", "unsafe-state"}]
    \union [kind : {"stale"}, reason : {"observation-too-old"}]
    \union [kind : {"unavailable"}, reason : {"clock-failure"}]
    \union [kind : {"rejected"},
            reason : {"invalid-query", "invalid-source-response", "invalid-observation",
                      "target-mismatch", "future-observation"}]
    \union [kind : {"expired"}, validUntil : Int64]
    \union [kind : {"candidate"}, observation : Observation,
            proposedProtocolVersion : ProtocolVersion]
    \union [kind : {"incompatible"}, missingCapabilities : SUBSET Capability,
            protocolCompatible : BOOLEAN, advertisedCapabilities : SUBSET Capability,
            advertisedProtocolRange : ProtocolRange]

ASSUME NoResultIsNone == None \notin Result

\* Whatever callers, source and clock hand over, the call works on a
\* well-formed query and policy and its answer is one of the closed union.
TypeOK ==
    /\ dependencies \in [ports : BOOLEAN, freshnessPolicy : RawPolicy]
    /\ policy \in FreshnessPolicy \union {None}
    /\ built \in RawPolicy \union {None}
    /\ clock \in RawInstant
    /\ argument \in [Call -> RawQuery]
    /\ asked \in [Call -> RawQuery \union {None}]
    /\ query \in [Call -> Query \union {None}]
    /\ clockAtCall \in [Call -> RawInstant \union {None}]
    /\ sourced \in [Call -> RawResult \union {Throws, None}]
    /\ at \in [Call -> {"idle", "reading", "answered"}]
    /\ result \in [Call -> Result \union {None}]

Versions(range) == range.minimum..range.maximum

Answers(c, kinds) == result[c] # None /\ result[c].kind \in kinds

\* A candidate meets the query as it was when the call was made, although the
\* caller may have changed its object during the await: it is the target asked
\* for, it has every capability required, and the version proposed is the
\* highest that both sides support.
CandidateMeetsQuery ==
    \A c \in Call : Answers(c, {"candidate"}) =>
      LET seen == result[c].observation
          v    == result[c].proposedProtocolVersion
          both == Versions(asked[c].supportedProtocolRange) \cap Versions(seen.protocolRange)
      IN  /\ seen.targetId = asked[c].targetId
          /\ ToSet(asked[c].requiredCapabilities) \subseteq seen.capabilities
          /\ v \in both /\ \A w \in both : w <= v

\* An observation is called incompatible for a true reason: the answer names
\* exactly the missing capabilities, says whether some version is common, and
\* one of the two is an obstacle.
IncompatibleForAReason ==
    \A c \in Call : Answers(c, {"incompatible"}) =>
      LET seen == sourced[c].observation
          both == Versions(asked[c].supportedProtocolRange) \cap Versions(seen.protocolRange)
      IN  /\ result[c].missingCapabilities =
               ToSet(asked[c].requiredCapabilities) \ ToSet(seen.capabilities)
          /\ result[c].protocolCompatible <=> both # {}
          /\ both = {} \/ result[c].missingCapabilities # {}

\* The answers that tell something of an observation.
Telling(r) ==
    \/ r.kind \in {"candidate", "incompatible", "expired"}
    \/ r \in {Rejected("future-observation"), Unavailable("clock-failure"),
              [kind |-> "stale", reason |-> "observation-too-old"]}

\* Nothing of another target's observation gets into an answer, not even that
\* it is expired, too old or ahead of the clock.
NothingForeign ==
    \A c \in Call : result[c] # None /\ Telling(result[c]) =>
      sourced[c].observation.targetId = asked[c].targetId

AnswersNow(c) == at[c] = "reading" /\ at'[c] = "answered"
Evidence(c) == sourced[c].observation.freshness

\* An observation judged for compatibility is fresh at the moment the caller is
\* answered, however long the source took: not expired, at most as old and at
\* most as far ahead as the policy passed to the construction allowed, in
\* unbounded arithmetic.
JudgedWhileFresh ==
    [][\A c \in Call :
         AnswersNow(c) /\ result'[c].kind \in {"candidate", "incompatible"} =>
           /\ clock < Evidence(c).validUntil
           /\ clock \in (Evidence(c).observedAt - built.maximumFutureSkew)
                        ..(Evidence(c).observedAt + built.maximumObservationAge)]_vars

\* An observation is refused as expired, too old or ahead of the clock only if
\* it is so at that moment, by the policy passed to the construction.
RefusedOnlyIfNotFresh ==
    [][\A c \in Call : AnswersNow(c) =>
         /\ result'[c].kind = "expired" => clock >= Evidence(c).validUntil
         /\ result'[c] = [kind |-> "stale", reason |-> "observation-too-old"] =>
              clock - Evidence(c).observedAt > built.maximumObservationAge
         /\ result'[c] = Rejected("future-observation") =>
              Evidence(c).observedAt - clock > built.maximumFutureSkew]_vars

\* A call whose source has settled, either way, is answered, whatever the clock
\* does.  (A source that never settles keeps its call waiting: there is no
\* timeout.)
SettledCallsAnswered == \A c \in Call : Settled(c) ~> at[c] = "answered"

=============================================================================
