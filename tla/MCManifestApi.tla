---------------------------- MODULE MCManifestApi ----------------------------
(* Two tenants with one project each; one manifest name per project; a     *)
(* second of ten microseconds.                                             *)
EXTENDS ManifestApi, TLC

CONSTANTS tA, tB, pA, pB, nA, nB, fA, fA2, fB, fBad, fLate

MCOwnerOf == pA :> tA @@ pB :> tB
MCProjectOf == nA :> pA @@ nB :> pB
MCRefsIn == fA :> pA @@ fA2 :> pA @@ fB :> pB @@ fBad :> pA @@ fLate :> pA
\* Before 1970 with and without digits behind the point, the last instant of
\* the calendar, and the one after it.
MCCreatedAt == fA :> -13 @@ fA2 :> -20 @@ fB :> 25 @@ fBad :> 0 @@ fLate :> 26
MCEarliest == -25

Seed(t, p, n, f) == [op |-> "seed", context |-> [tenant |-> t, project |-> p],
                     name |-> n, facts |-> f]
Get(t, p, n) == [op |-> "get", context |-> [tenant |-> t, project |-> p],
                 name |-> n, facts |-> None]

\* Good calls of both tenants, rival facts, a tenant on another's project, a
\* name and references of another project, malformed facts, an instant outside
\* the calendar.
MCOffered ==
    {Seed(tA, pA, nA, fA), Seed(tA, pA, nA, fA2), Seed(tB, pB, nB, fB),
     Seed(tB, pA, nA, fA), Seed(tA, pA, nB, fA), Seed(tA, pA, nA, fB),
     Seed(tA, pA, nA, fBad), Seed(tA, pA, nA, fLate),
     Get(tA, pA, nA), Get(tB, pB, nB), Get(tB, pA, nA), Get(tA, pA, nB)}
=============================================================================
