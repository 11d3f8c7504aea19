------------------------- MODULE HostDiscoveryProofs -------------------------
(***************************************************************************)
(* Every answer of the host-discovery feature is true of the query as it   *)
(* was asked, of the observation as it was resolved, and of the clock as   *)
(* it stands when the caller is answered, for all inputs and all widths.   *)
(***************************************************************************)
EXTENDS HostDiscovery, TLAPS

\* The judgement of an observation uses the policy passed to construction.
PolicyInv == policy # None => policy = built

\* A call that waits holds a copy of its query as asked, and no answer.
CallInv ==
    \A c \in Call :
      /\ at[c] = "idle" => result[c] = None
      /\ at[c] # "idle" => query[c] = SnapshotQuery(asked[c])
      /\ at[c] = "reading" => query[c] # None /\ result[c] = None /\ policy # None

VerdictInv == CandidateMeetsQuery /\ IncompatibleForAReason /\ NothingForeign

IInv == TypeOK /\ PolicyInv /\ CallInv /\ VerdictInv

-----------------------------------------------------------------------------
(* The copies: what passes the checks keeps its fields. *)

LEMMA QueryCopied ==
  ASSUME NEW raw, SnapshotQuery(raw) # None
  PROVE  /\ SnapshotQuery(raw) \in Query
         /\ SnapshotQuery(raw).targetId = raw.targetId
         /\ SnapshotQuery(raw).supportedProtocolRange = raw.supportedProtocolRange
         /\ SnapshotQuery(raw).requiredCapabilities = ToSet(raw.requiredCapabilities)
  <1> DEFINE Raw == [targetId : Target, supportedProtocolRange : ProtocolRange,
                     requiredCapabilities : CapabilityList]
  <1>1. raw \in Raw
    BY DEF SnapshotQuery
  <1>2. raw.requiredCapabilities \in Seq(Capability)
    BY <1>1 DEF CapabilityList
  <1>3. ToSet(raw.requiredCapabilities) \subseteq Capability
    BY <1>2 DEF ToSet
  <1>4. SnapshotQuery(raw) =
          [raw EXCEPT !.requiredCapabilities = ToSet(raw.requiredCapabilities)]
    BY <1>1 DEF SnapshotQuery
  <1>5. QED
    BY <1>1, <1>3, <1>4 DEF Query

LEMMA ObservationCopied ==
  ASSUME NEW raw, SnapshotObservation(raw) # None
  PROVE  /\ SnapshotObservation(raw) \in Observation
         /\ SnapshotObservation(raw).targetId = raw.targetId
         /\ SnapshotObservation(raw).protocolRange = raw.protocolRange
         /\ SnapshotObservation(raw).freshness = raw.freshness
         /\ SnapshotObservation(raw).capabilities = ToSet(raw.capabilities)
  <1> DEFINE Raw == [targetId : Target, protocolRange : ProtocolRange,
                     capabilities : CapabilityList,
                     freshness : FreshnessEvidence, identity : {"wellFormed"}]
  <1>1. raw \in Raw
    BY DEF SnapshotObservation
  <1>2. raw.capabilities \in Seq(Capability)
    BY <1>1 DEF CapabilityList
  <1>3. ToSet(raw.capabilities) \subseteq Capability
    BY <1>2 DEF ToSet
  <1>4. SnapshotObservation(raw) =
          [raw EXCEPT !.capabilities = ToSet(raw.capabilities)]
    BY <1>1 DEF SnapshotObservation
  <1>5. QED
    BY <1>1, <1>3, <1>4 DEF Observation

\* What the source answers by itself tells nothing of an observation.
LEMMA TerminalResult ==
  ASSUME NEW q, NEW raw, SourceTerminalResult(q, raw) # None
  PROVE  /\ SourceTerminalResult(q, raw) \in Result
         /\ ~Telling(SourceTerminalResult(q, raw))
  <1> DEFINE r == SourceTerminalResult(q, raw)
  <1> USE DEF SourceTerminalResult, Rejected, Unavailable, Result, Telling, GivenReason
  <1>1. CASE raw = Throws
    BY <1>1
  <1>2. CASE raw # Throws /\ raw.kind = "observed"
    <2>1. r \in {Rejected("invalid-observation"), Rejected("target-mismatch")}
      BY <1>2
    <2>2. QED BY <2>1
  <1>3. CASE raw # Throws /\ raw.kind # "observed"
    <2>1. CASE ~ClosedResult(raw)
      BY <1>3, <2>1
    <2>2. CASE ClosedResult(raw) /\ ~SameTarget(raw.targetId, q.targetId)
      BY <1>3, <2>2
    <2>3. CASE ClosedResult(raw) /\ SameTarget(raw.targetId, q.targetId)
      <3>1. CASE raw.kind = "not-found"
        BY <1>3, <2>3, <3>1
      <3>2. CASE raw.kind = "rejected"
        BY <1>3, <2>3, <3>2 DEF ClosedResult
      <3>3. CASE raw.kind = "stale"
        BY <1>3, <2>3, <3>3 DEF ClosedResult
      <3>4. CASE raw.kind = "unavailable"
        BY <1>3, <2>3, <3>4 DEF ClosedResult
      <3>5. QED BY <2>3, <3>1, <3>2, <3>3, <3>4 DEF ClosedResult
    <2>4. QED BY <2>1, <2>2, <2>3
  <1>4. QED BY <1>1, <1>2, <1>3

\* A call goes on to judge only an observation of its own target.
LEMMA ObservationToJudge ==
  ASSUME NEW q, NEW raw, SourceTerminalResult(q, raw) = None
  PROVE  /\ SnapshotObservation(raw.observation) # None
         /\ SnapshotObservation(raw.observation).targetId = q.targetId
  <1> USE NoResultIsNone DEF SourceTerminalResult, Rejected, Unavailable, Result, GivenReason
  <1>1. raw # Throws
    OBVIOUS
  <1>2. raw.kind = "observed"
    <2> SUFFICES ASSUME raw.kind # "observed" PROVE FALSE
      OBVIOUS
    <2>1. ClosedResult(raw) /\ SameTarget(raw.targetId, q.targetId)
      BY <1>1
    <2>2. CASE raw.kind = "not-found"
      BY <1>1, <2>1, <2>2
    <2>3. CASE raw.kind = "rejected"
      BY <1>1, <2>1, <2>3 DEF ClosedResult
    <2>4. CASE raw.kind = "stale"
      BY <1>1, <2>1, <2>4 DEF ClosedResult
    <2>5. CASE raw.kind = "unavailable"
      BY <1>1, <2>1, <2>5 DEF ClosedResult
    <2>6. QED BY <2>1, <2>2, <2>3, <2>4, <2>5 DEF ClosedResult
  <1>3. QED
    BY <1>1, <1>2 DEF SameTarget

-----------------------------------------------------------------------------
(* The judgement of an observation. *)

\* A refusal is one of the closed union and is true; without one, the
\* observation is fresh.
LEMMA Freshness ==
  ASSUME HostDiscoveryAssumption, NEW seen \in Observation, NEW now \in Int64,
         NEW p \in FreshnessPolicy
  PROVE  LET f == seen.freshness
             r == EvaluateFreshness(seen, now, p)
         IN  /\ r # None => r \in Result /\ r.kind \notin {"candidate", "incompatible"}
             /\ r # None /\ r.kind = "expired" => now >= f.validUntil
             /\ r = [kind |-> "stale", reason |-> "observation-too-old"] =>
                  now - f.observedAt > p.maximumObservationAge
             /\ r = Rejected("future-observation") =>
                  f.observedAt - now > p.maximumFutureSkew
             /\ r = None =>
                  /\ now < f.validUntil
                  /\ now \in (f.observedAt - p.maximumFutureSkew)
                             ..(f.observedAt + p.maximumObservationAge)
  <1> DEFINE f == seen.freshness
             r == EvaluateFreshness(seen, now, p)
  <1>1. /\ f.observedAt \in Int64 /\ f.validUntil \in Int64
        /\ p.maximumFutureSkew \in Uint64 /\ p.maximumObservationAge \in Uint64
    BY DEF Observation, FreshnessEvidence, FreshnessPolicy
  <1>2. /\ f.observedAt \in Int /\ f.validUntil \in Int /\ now \in Int
        /\ p.maximumFutureSkew \in Nat /\ p.maximumObservationAge \in Nat
    BY <1>1 DEF HostDiscoveryAssumption, Int64, Uint64
  <1> USE DEF EvaluateFreshness, ObservationAge, Rejected
  <1>3. CASE now >= f.validUntil
    <2>1. r = [kind |-> "expired", validUntil |-> f.validUntil]
      BY <1>3
    <2>2. r \in Result
      BY <1>1, <2>1 DEF Result
    <2>3. QED BY <1>3, <2>1, <2>2, NoResultIsNone
  <1>4. CASE now < f.validUntil /\ f.observedAt > now + p.maximumFutureSkew
    <2>1. r = Rejected("future-observation")
      BY <1>2, <1>4
    <2>2. r \in Result
      BY <2>1 DEF Result
    <2>3. QED BY <1>2, <1>4, <2>1, <2>2, NoResultIsNone
  <1>5. CASE /\ now < f.validUntil /\ f.observedAt <= now + p.maximumFutureSkew
             /\ now - f.observedAt > p.maximumObservationAge
    <2>1. r = [kind |-> "stale", reason |-> "observation-too-old"]
      BY <1>2, <1>5
    <2>2. r \in Result
      BY <2>1 DEF Result
    <2>3. QED BY <1>2, <1>5, <2>1, <2>2, NoResultIsNone
  <1>6. CASE /\ now < f.validUntil /\ f.observedAt <= now + p.maximumFutureSkew
             /\ now - f.observedAt <= p.maximumObservationAge
    <2>1. r = None
      BY <1>2, <1>6
    <2>2. [kind |-> "stale", reason |-> "observation-too-old"] \in Result
          /\ Rejected("future-observation") \in Result
      BY DEF Result
    <2>3. QED BY <1>2, <1>6, <2>1, <2>2, NoResultIsNone
  <1>7. QED BY <1>2, <1>3, <1>4, <1>5, <1>6

\* The version proposed is the highest common one, and incompatibility names
\* what is missing.
LEMMA Compatibility ==
  ASSUME HostDiscoveryAssumption, NEW q \in Query, NEW seen \in Observation
  PROVE  LET r    == EvaluateCompatibility(q, seen)
             both == Versions(q.supportedProtocolRange) \cap Versions(seen.protocolRange)
         IN  /\ r \in Result
             /\ r.kind \in {"candidate", "incompatible"}
             /\ r.kind = "candidate" =>
                  /\ r.observation = seen
                  /\ q.requiredCapabilities \subseteq seen.capabilities
                  /\ r.proposedProtocolVersion \in both
                  /\ \A w \in both : w <= r.proposedProtocolVersion
             /\ r.kind = "incompatible" =>
                  /\ r.missingCapabilities = q.requiredCapabilities \ seen.capabilities
                  /\ r.protocolCompatible <=> both # {}
                  /\ both = {} \/ r.missingCapabilities # {}
  <1> DEFINE r == EvaluateCompatibility(q, seen)
             a == q.supportedProtocolRange
             b == seen.protocolRange
             both == Versions(a) \cap Versions(b)
             missing == q.requiredCapabilities \ seen.capabilities
             top == CommonMaximum(q, seen)
  <1>1. a \in ProtocolRange /\ b \in ProtocolRange
    BY DEF Query, Observation
  <1>2. /\ a.minimum \in ProtocolVersion /\ a.maximum \in ProtocolVersion
        /\ b.minimum \in ProtocolVersion /\ b.maximum \in ProtocolVersion
        /\ a.minimum <= a.maximum /\ b.minimum <= b.maximum
    BY <1>1 DEF ProtocolRange
  <1>3. /\ a.minimum \in Int /\ a.maximum \in Int
        /\ b.minimum \in Int /\ b.maximum \in Int
    BY <1>2 DEF ProtocolVersion
  <1>4. top \in ProtocolVersion
    BY <1>2 DEF CommonMaximum
  <1>5. \A w \in both : w \in Int /\ w <= top
    BY <1>3 DEF Versions, CommonMaximum
  <1>6. ProtocolCompatible(q, seen) => top \in both
    BY <1>2, <1>3 DEF Versions, CommonMaximum, CommonMinimum, ProtocolCompatible
  <1>7. both # {} => ProtocolCompatible(q, seen)
    BY <1>2, <1>3 DEF Versions, CommonMaximum, CommonMinimum, ProtocolCompatible
  <1>8. missing \subseteq Capability /\ seen.capabilities \subseteq Capability
    BY DEF Query, Observation
  <1>9. ProtocolCompatible(q, seen) \in BOOLEAN
    BY DEF ProtocolCompatible
  <1>10. CASE ProtocolCompatible(q, seen) /\ missing = {}
    <2>1. r = [kind |-> "candidate", observation |-> seen, proposedProtocolVersion |-> top]
      BY <1>10 DEF EvaluateCompatibility
    <2>2. r \in Result
      BY <1>4, <2>1 DEF Result
    <2>3. QED BY <1>5, <1>6, <1>10, <2>1, <2>2
  <1>11. CASE ~(ProtocolCompatible(q, seen) /\ missing = {})
    <2>1. r = [kind |-> "incompatible", missingCapabilities |-> missing,
               protocolCompatible |-> ProtocolCompatible(q, seen),
               advertisedCapabilities |-> seen.capabilities,
               advertisedProtocolRange |-> b]
      BY <1>11 DEF EvaluateCompatibility
    <2>2. r \in Result
      BY <1>1, <1>8, <1>9, <2>1 DEF Result
    <2>3. QED BY <1>6, <1>7, <1>11, <2>1, <2>2
  <1>12. QED BY <1>10, <1>11

-----------------------------------------------------------------------------
(* The steps. *)

\* What a call that resumes with an observation has in hand.
LEMMA Judging ==
  ASSUME IInv, NEW c \in Call, Settled(c),
         SourceTerminalResult(JudgedQuery(c), sourced[c]) = None
  PROVE  /\ Seen(c) \in Observation
         /\ Seen(c).targetId = sourced[c].observation.targetId
         /\ Seen(c).protocolRange = sourced[c].observation.protocolRange
         /\ Seen(c).freshness = sourced[c].observation.freshness
         /\ Seen(c).capabilities = ToSet(sourced[c].observation.capabilities)
         /\ Seen(c).targetId = asked[c].targetId
         /\ JudgedQuery(c) \in Query
         /\ JudgedQuery(c).supportedProtocolRange = asked[c].supportedProtocolRange
         /\ JudgedQuery(c).requiredCapabilities = ToSet(asked[c].requiredCapabilities)
         /\ policy # None /\ policy \in FreshnessPolicy /\ policy = built
  <1>1. /\ query[c] = SnapshotQuery(asked[c]) /\ query[c] # None
        /\ policy # None /\ policy \in FreshnessPolicy /\ policy = built
    BY DEF IInv, TypeOK, PolicyInv, CallInv, Settled
  <1>2. /\ SnapshotObservation(sourced[c].observation) # None
        /\ SnapshotObservation(sourced[c].observation).targetId = query[c].targetId
    BY ObservationToJudge DEF JudgedQuery
  <1>3. QED
    BY <1>1, <1>2, QueryCopied, ObservationCopied DEF Seen, JudgedQuery

\* The answer of such a call, and what it says.
LEMMA JudgedAnswer ==
  ASSUME HostDiscoveryAssumption, IInv, NEW c \in Call, AnswerFromObservation(c)
  PROVE  LET r == result'[c]
         IN  /\ r \in Result
             /\ r.kind \in {"candidate", "incompatible"} =>
                  /\ r = EvaluateCompatibility(JudgedQuery(c), Seen(c))
                  /\ EvaluateFreshness(Seen(c), clock, policy) = None
             /\ r.kind \notin {"candidate", "incompatible"} =>
                  r = EvaluateFreshness(Seen(c), clock, policy)
  <1> DEFINE refusal == EvaluateFreshness(Seen(c), clock, policy)
             verdict == EvaluateCompatibility(JudgedQuery(c), Seen(c))
  <1>1. /\ Settled(c) /\ SourceTerminalResult(JudgedQuery(c), sourced[c]) = None
        /\ clock \in Int64
        /\ result' = [result EXCEPT ![c] = IF refusal # None THEN refusal ELSE verdict]
    BY DEF AnswerFromObservation, Answer, JudgedInstant, JudgedPolicy
  <1>2. result'[c] = IF refusal # None THEN refusal ELSE verdict
    BY <1>1 DEF IInv, TypeOK
  <1>3. Seen(c) \in Observation /\ JudgedQuery(c) \in Query /\ policy \in FreshnessPolicy
    BY <1>1, Judging
  <1>4. refusal # None => refusal \in Result /\ refusal.kind \notin {"candidate", "incompatible"}
    BY <1>1, <1>3, Freshness
  <1>5. verdict \in Result /\ verdict.kind \in {"candidate", "incompatible"}
    BY <1>3, Compatibility
  <1>6. QED BY <1>2, <1>4, <1>5

LEMMA InitIInv == Init => IInv
  BY DEF Init, IInv, TypeOK, PolicyInv, CallInv, VerdictInv, CandidateMeetsQuery,
         IncompatibleForAReason, NothingForeign, Answers

\* A step that answers call c keeps the invariant if what it answers does.
LEMMA AnswerInv ==
  ASSUME HostDiscoveryAssumption, IInv, NEW c \in Call, NEW r \in Result,
         at[c] = "reading", Answer(c, r),
         UNCHANGED <<dependencies, policy, built, clock, argument, asked, query,
                     clockAtCall, sourced>>,
         r.kind = "candidate" \/ r.kind = "incompatible" =>
           r = EvaluateCompatibility(JudgedQuery(c), Seen(c)),
         Telling(r) => SourceTerminalResult(JudgedQuery(c), sourced[c]) = None /\ Settled(c)
  PROVE  IInv'
  <1>1. /\ result' = [result EXCEPT ![c] = r] /\ result'[c] = r
        /\ at' = [at EXCEPT ![c] = "answered"] /\ at'[c] = "answered"
        /\ \A k \in Call \ {c} : result'[k] = result[k] /\ at'[k] = at[k]
    BY DEF Answer, IInv, TypeOK
  <1>2. TypeOK'
    BY <1>1 DEF IInv, TypeOK
  <1>3. PolicyInv'
    BY DEF IInv, PolicyInv
  <1>4. CallInv'
    BY <1>1 DEF IInv, CallInv
  <1>5. VerdictInv'
    <2> SUFFICES ASSUME NEW k \in Call
                 PROVE  /\ CandidateMeetsQuery!(k)'
                        /\ IncompatibleForAReason!(k)'
                        /\ NothingForeign!(k)'
      BY DEF VerdictInv, CandidateMeetsQuery, IncompatibleForAReason, NothingForeign
    <2>1. CASE k # c
      BY <1>1, <2>1 DEF IInv, VerdictInv, CandidateMeetsQuery, IncompatibleForAReason,
                        NothingForeign, Answers
    <2>2. CASE k = c
      <3>1. CASE ~Telling(r)
        BY <1>1, <2>2, <3>1 DEF Answers, Telling
      <3>2. CASE Telling(r)
        <4>1. /\ Seen(c) \in Observation
              /\ Seen(c).targetId = sourced[c].observation.targetId
              /\ Seen(c).protocolRange = sourced[c].observation.protocolRange
              /\ Seen(c).capabilities = ToSet(sourced[c].observation.capabilities)
              /\ Seen(c).targetId = asked[c].targetId
              /\ JudgedQuery(c) \in Query
              /\ JudgedQuery(c).supportedProtocolRange = asked[c].supportedProtocolRange
              /\ JudgedQuery(c).requiredCapabilities = ToSet(asked[c].requiredCapabilities)
          BY <3>2, Judging
        <4>2. NothingForeign!(k)'
          BY <2>2, <4>1
        <4>3. CandidateMeetsQuery!(k)'
          BY <1>1, <2>2, <4>1, Compatibility DEF Answers
        <4>4. IncompatibleForAReason!(k)'
          BY <1>1, <2>2, <4>1, Compatibility DEF Answers
        <4>5. QED BY <4>2, <4>3, <4>4
      <3>3. QED BY <3>1, <3>2
    <2>3. QED BY <2>1, <2>2
  <1>6. QED BY <1>2, <1>3, <1>4, <1>5 DEF IInv

LEMMA NextIInv == HostDiscoveryAssumption /\ IInv /\ [Next]_vars => IInv'
  <1> SUFFICES ASSUME HostDiscoveryAssumption, IInv, [Next]_vars PROVE IInv'
    OBVIOUS
  <1> USE DEF VerdictInv, CandidateMeetsQuery, IncompatibleForAReason, NothingForeign, Answers
  <1>1. ASSUME CreateHostDiscovery PROVE IInv'
    <2>1. policy = None \/ policy = built
      BY DEF IInv, PolicyInv
    <2>2. policy' \in FreshnessPolicy \union {None} /\ built' \in RawPolicy
          /\ (policy' # None => policy' = built')
      BY <1>1 DEF CreateHostDiscovery, IInv, TypeOK
    <2>3. policy # None => policy' # None
      BY <1>1, <2>1, <2>2 DEF CreateHostDiscovery
    <2>4. TypeOK'
      BY <1>1, <2>2 DEF CreateHostDiscovery, IInv, TypeOK
    <2>5. CallInv'
      BY <1>1, <2>3 DEF CreateHostDiscovery, IInv, CallInv
    <2>6. VerdictInv'
      BY <1>1 DEF CreateHostDiscovery, IInv
    <2>7. QED BY <2>2, <2>4, <2>5, <2>6 DEF IInv, PolicyInv
  <1>2. ASSUME NEW c \in Call, Discover(c) PROVE IInv'
    <2>1. /\ asked' = [asked EXCEPT ![c] = argument[c]]
          /\ query' = [query EXCEPT ![c] = SnapshotQuery(argument[c])]
          /\ argument[c] \in RawQuery
          /\ SnapshotQuery(argument[c]) \in Query \union {None}
          /\ policy # None /\ at[c] = "idle" /\ result[c] = None
      BY <1>2, QueryCopied DEF Discover, IInv, TypeOK, CallInv
    <2>2. Rejected("invalid-query") \in Result /\ ~Telling(Rejected("invalid-query"))
      BY DEF Rejected, Unavailable, Result, Telling
    <2>3. \/ /\ SnapshotQuery(argument[c]) = None
             /\ result' = [result EXCEPT ![c] = Rejected("invalid-query")]
             /\ at' = [at EXCEPT ![c] = "answered"]
          \/ /\ SnapshotQuery(argument[c]) # None
             /\ result' = result
             /\ at' = [at EXCEPT ![c] = "reading"]
      BY <1>2 DEF Discover, Answer
    <2>4. TypeOK'
      BY <1>2, <2>1, <2>2, <2>3 DEF Discover, IInv, TypeOK
    <2>5. PolicyInv'
      BY <1>2 DEF Discover, IInv, PolicyInv
    <2>6. CallInv'
      BY <1>2, <2>1, <2>3 DEF Discover, IInv, CallInv, TypeOK
    <2>7. VerdictInv'
      <3>1. /\ \A k \in Call \ {c} : result'[k] = result[k] /\ asked'[k] = asked[k]
            /\ result'[c] = None \/ ~Telling(result'[c])
        BY <2>1, <2>2, <2>3 DEF IInv, TypeOK
      <3>2. sourced' = sourced
        BY <1>2 DEF Discover
      <3>3. QED BY <3>1, <3>2 DEF IInv, Telling
    <2>8. QED BY <2>4, <2>5, <2>6, <2>7 DEF IInv
  <1>3. ASSUME NEW c \in Call, SourceSettles(c) PROVE IInv'
    <2>1. /\ result[c] = None
          /\ \A k \in Call \ {c} : sourced'[k] = sourced[k]
      BY <1>3 DEF SourceSettles, IInv, CallInv, TypeOK
    <2>2. TypeOK'
      BY <1>3 DEF SourceSettles, IInv, TypeOK
    <2>3. PolicyInv' /\ CallInv'
      BY <1>3 DEF SourceSettles, IInv, PolicyInv, CallInv
    <2>4. VerdictInv'
      BY <1>3, <2>1 DEF SourceSettles, IInv
    <2>5. QED BY <2>2, <2>3, <2>4 DEF IInv
  <1>4. ASSUME NEW c \in Call, AnswerFromSource(c) PROVE IInv'
    <2>1. /\ SourceTerminalResult(JudgedQuery(c), sourced[c]) \in Result
          /\ ~Telling(SourceTerminalResult(JudgedQuery(c), sourced[c]))
      BY <1>4, TerminalResult DEF AnswerFromSource
    <2>2. QED
      BY <1>4, <2>1, AnswerInv DEF AnswerFromSource, Settled, Telling
  <1>5. ASSUME NEW c \in Call, AnswerClockFailure(c) PROVE IInv'
    <2>1. /\ Unavailable("clock-failure") \in Result
          /\ Unavailable("clock-failure").kind = "unavailable"
      BY DEF Unavailable, Result
    <2>2. QED
      BY <1>5, <2>1, AnswerInv DEF AnswerClockFailure, Settled
  <1>6. ASSUME NEW c \in Call, AnswerFromObservation(c) PROVE IInv'
    <2>1. result'[c] \in Result
      BY <1>6, JudgedAnswer
    <2>2. result'[c].kind \in {"candidate", "incompatible"} =>
            result'[c] = EvaluateCompatibility(JudgedQuery(c), Seen(c))
      BY <1>6, JudgedAnswer
    <2>3. Answer(c, result'[c])
      BY <1>6 DEF AnswerFromObservation, Answer, IInv, TypeOK
    <2>4. QED
      BY <1>6, <2>1, <2>2, <2>3, AnswerInv DEF AnswerFromObservation, Settled
  <1>7. ASSUME NEW c \in Call, ChangeQuery(c) PROVE IInv'
    <2>1. TypeOK'
      BY <1>7 DEF ChangeQuery, IInv, TypeOK
    <2>2. QED
      BY <1>7, <2>1 DEF ChangeQuery, IInv, PolicyInv, CallInv
  <1>8. ASSUME ChangeDependencies \/ ClockMoves \/ UNCHANGED vars PROVE IInv'
    <2>1. TypeOK'
      BY <1>8 DEF ChangeDependencies, ClockMoves, vars, IInv, TypeOK
    <2>2. QED
      BY <1>8, <2>1 DEF ChangeDependencies, ClockMoves, vars, IInv, PolicyInv, CallInv
  <1>9. QED
    BY <1>1, <1>2, <1>3, <1>4, <1>5, <1>6, <1>7, <1>8 DEF Next

THEOREM Invariance == Spec => []IInv
  <1>1. Init => IInv
    BY InitIInv
  <1>2. IInv /\ [Next]_vars => IInv'
    BY NextIInv, HostDiscoveryAssumption
  <1>3. QED BY <1>1, <1>2, PTL DEF Spec

\* Whatever is handed over, queries, policies and answers are well-formed.
THEOREM HostDiscoveryTypeOK == Spec => []TypeOK
  <1>1. IInv => TypeOK
    BY DEF IInv
  <1>2. QED BY <1>1, Invariance, PTL

\* A candidate is what the query asked for, at the highest common version.
THEOREM HostDiscoveryCandidates == Spec => []CandidateMeetsQuery
  <1>1. IInv => CandidateMeetsQuery
    BY DEF IInv, VerdictInv
  <1>2. QED BY <1>1, Invariance, PTL

\* An incompatible observation is so for the reasons the answer gives.
THEOREM HostDiscoveryReasons == Spec => []IncompatibleForAReason
  <1>1. IInv => IncompatibleForAReason
    BY DEF IInv, VerdictInv
  <1>2. QED BY <1>1, Invariance, PTL

\* No answer tells anything of another target's observation.
THEOREM HostDiscoveryNothingForeign == Spec => []NothingForeign
  <1>1. IInv => NothingForeign
    BY DEF IInv, VerdictInv
  <1>2. QED BY <1>1, Invariance, PTL

-----------------------------------------------------------------------------
(* What is true at the moment of an answer. *)

\* A waiting call is answered by one of the three resumptions, and the two
\* that judge nothing say nothing of freshness.
LEMMA AnswersOfAStep ==
  ASSUME IInv, [Next]_vars, NEW c \in Call, AnswersNow(c)
  PROVE  \/ AnswerFromObservation(c)
         \/ /\ result'[c].kind \notin {"candidate", "incompatible", "expired"}
            /\ result'[c] # [kind |-> "stale", reason |-> "observation-too-old"]
            /\ result'[c] # Rejected("future-observation")
  <1> USE DEF AnswersNow, Answer, IInv, TypeOK
  <1>1. AnswerFromSource(c) \/ AnswerClockFailure(c) \/ AnswerFromObservation(c)
    <2>1. CASE CreateHostDiscovery \/ ChangeDependencies \/ ClockMoves \/ UNCHANGED vars
      BY <2>1 DEF CreateHostDiscovery, ChangeDependencies, ClockMoves, vars
    <2>2. CASE \E k \in Call : Discover(k)
      BY <2>2 DEF Discover
    <2>3. CASE \E k \in Call : SourceSettles(k) \/ ChangeQuery(k)
      BY <2>3 DEF SourceSettles, ChangeQuery
    <2>4. CASE \E k \in Call : AnswerFromSource(k) \/ AnswerClockFailure(k)
                              \/ AnswerFromObservation(k)
      BY <2>4 DEF AnswerFromSource, AnswerClockFailure, AnswerFromObservation
    <2>5. QED BY <2>1, <2>2, <2>3, <2>4 DEF Next
  <1>2. CASE AnswerFromSource(c)
    <2>1. /\ result'[c] = SourceTerminalResult(JudgedQuery(c), sourced[c])
          /\ result'[c] # None
      BY <1>2 DEF AnswerFromSource
    <2>2. ~Telling(result'[c])
      BY <2>1, TerminalResult
    <2>3. QED BY <2>2 DEF Telling
  <1>3. CASE AnswerClockFailure(c)
    <2>1. result'[c] = [kind |-> "unavailable", reason |-> "clock-failure"]
      BY <1>3 DEF AnswerClockFailure, Unavailable
    <2>2. QED BY <2>1 DEF Rejected
  <1>4. QED BY <1>1, <1>2, <1>3

\* Of an observation that is judged, in the words of the two properties.
LEMMA FreshWhenJudged ==
  ASSUME HostDiscoveryAssumption, IInv, NEW c \in Call, AnswerFromObservation(c)
  PROVE  /\ result'[c].kind \in {"candidate", "incompatible"} =>
              /\ clock < Evidence(c).validUntil
              /\ clock \in (Evidence(c).observedAt - built.maximumFutureSkew)
                           ..(Evidence(c).observedAt + built.maximumObservationAge)
         /\ result'[c].kind = "expired" => clock >= Evidence(c).validUntil
         /\ result'[c] = [kind |-> "stale", reason |-> "observation-too-old"] =>
              clock - Evidence(c).observedAt > built.maximumObservationAge
         /\ result'[c] = Rejected("future-observation") =>
              Evidence(c).observedAt - clock > built.maximumFutureSkew
  <1> DEFINE refusal == EvaluateFreshness(Seen(c), clock, policy)
  <1>1. /\ Settled(c) /\ SourceTerminalResult(JudgedQuery(c), sourced[c]) = None
        /\ clock \in Int64
    BY DEF AnswerFromObservation, JudgedInstant
  <1>2. /\ Seen(c) \in Observation /\ Seen(c).freshness = Evidence(c)
        /\ policy \in FreshnessPolicy /\ policy = built
    BY <1>1, Judging DEF Evidence
  <1>3. /\ result'[c] \in Result
        /\ result'[c].kind \in {"candidate", "incompatible"} => refusal = None
        /\ result'[c].kind \notin {"candidate", "incompatible"} => result'[c] = refusal
    BY JudgedAnswer
  <1>4. result'[c] # None
    BY <1>3, NoResultIsNone
  <1>5. /\ refusal # None /\ refusal.kind = "expired" => clock >= Evidence(c).validUntil
        /\ refusal = [kind |-> "stale", reason |-> "observation-too-old"] =>
             clock - Evidence(c).observedAt > built.maximumObservationAge
        /\ refusal = Rejected("future-observation") =>
             Evidence(c).observedAt - clock > built.maximumFutureSkew
        /\ refusal = None =>
             /\ clock < Evidence(c).validUntil
             /\ clock \in (Evidence(c).observedAt - built.maximumFutureSkew)
                          ..(Evidence(c).observedAt + built.maximumObservationAge)
    BY <1>1, <1>2, Freshness
  <1>6. /\ result'[c].kind = "expired" => result'[c] = refusal
        /\ result'[c] = [kind |-> "stale", reason |-> "observation-too-old"] =>
             result'[c] = refusal
        /\ result'[c] = Rejected("future-observation") => result'[c] = refusal
    BY <1>3 DEF Rejected
  <1>7. QED BY <1>3, <1>4, <1>5, <1>6

\* What is judged for compatibility is fresh when the caller is answered.
THEOREM HostDiscoveryFreshness == Spec => JudgedWhileFresh
  <1>1. IInv /\ [Next]_vars =>
          [\A c \in Call :
             AnswersNow(c) /\ result'[c].kind \in {"candidate", "incompatible"} =>
               /\ clock < Evidence(c).validUntil
               /\ clock \in (Evidence(c).observedAt - built.maximumFutureSkew)
                            ..(Evidence(c).observedAt + built.maximumObservationAge)]_vars
    BY AnswersOfAStep, FreshWhenJudged, HostDiscoveryAssumption
  <1>2. QED BY <1>1, Invariance, PTL DEF Spec, JudgedWhileFresh

\* Expired, too old and ahead of the clock are said only where it is so.
THEOREM HostDiscoveryRefusals == Spec => RefusedOnlyIfNotFresh
  <1>1. IInv /\ [Next]_vars =>
          [\A c \in Call : AnswersNow(c) =>
             /\ result'[c].kind = "expired" => clock >= Evidence(c).validUntil
             /\ result'[c] = [kind |-> "stale", reason |-> "observation-too-old"] =>
                  clock - Evidence(c).observedAt > built.maximumObservationAge
             /\ result'[c] = Rejected("future-observation") =>
                  Evidence(c).observedAt - clock > built.maximumFutureSkew]_vars
    BY AnswersOfAStep, FreshWhenJudged, HostDiscoveryAssumption
  <1>2. QED BY <1>1, Invariance, PTL DEF Spec, RefusedOnlyIfNotFresh

=============================================================================
