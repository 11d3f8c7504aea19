--------------------------- MODULE MCHostDiscovery ---------------------------
(* Instants of two bits and durations of one, so that ages exceed what an  *)
(* instant can hold.  Well-formed and malformed inputs of every kind.      *)
EXTENDS HostDiscovery, TLC

CONSTANTS tA, tB, cX, cY, Malformed

Versioned(lo, hi) == [minimum |-> lo, maximum |-> hi]

Asking(t, r, caps) ==
    [targetId |-> t, supportedProtocolRange |-> r, requiredCapabilities |-> caps]

\* Two queries that differ in everything, and each way to be malformed.
MCRawQuery ==
    {Asking(tA, Versioned(1, 2), <<cX>>), Asking(tB, Versioned(2, 3), <<>>),
     Asking(Malformed, Versioned(1, 2), <<>>), Asking(tA, Versioned(2, 1), <<>>),
     Asking(tA, Versioned(0, 2), <<>>), Asking(tA, Versioned(1, 2), <<cX, cX>>),
     Malformed}

Observed(t, r, caps, seen, until) ==
    [kind |-> "observed",
     observation |-> [targetId |-> t, protocolRange |-> r, capabilities |-> caps,
                      freshness |-> [kind |-> "expiry", observedAt |-> seen,
                                     validUntil |-> until],
                      identity |-> "wellFormed"]]

Good == Observed(tA, Versioned(2, 3), <<cX>>, 0, 1)

\* Good observations at every instant, some that do not fit the first query,
\* and malformed ones.
MCRawResult ==
    {Observed(tA, Versioned(2, 3), <<cX>>, i, j) : i \in -2..1, j \in -2..1}
    \union {Observed(tA, Versioned(3, 3), <<cX>>, 0, 1), Observed(tA, Versioned(1, 3), <<cY>>, 0, 1),
            Observed(tB, Versioned(1, 1), <<>>, 0, 1), Observed(tA, Versioned(2, 3), <<cX, cY>>, 0, 1),
            Observed(tA, Versioned(3, 2), <<cX>>, 0, 1), Observed(tA, Versioned(2, 4), <<cX>>, 0, 1),
            Observed(tA, Versioned(2, 3), <<cX>>, 0, 2),
            [Good EXCEPT !.observation.identity = "malformed"]}
    \union {[kind |-> "not-found", targetId |-> tA], [kind |-> "not-found", targetId |-> tB],
            [kind |-> "stale", targetId |-> tA, reason |-> "superseded"],
            [kind |-> "stale", targetId |-> tA, reason |-> "observation-too-old"],
            [kind |-> "rejected", targetId |-> tA, reason |-> "unsafe-state"],
            [kind |-> "unavailable", targetId |-> tA, reason |-> "permission-denied"],
            [kind |-> "other"]}

Policy(skew, age) == [maximumFutureSkew |-> skew, maximumObservationAge |-> age]

MCRawPolicy == {Policy(0, 2), Policy(1, 0), Policy(0, 4)}

MCRawInstant == {Throws, -3, -2, -1, 0, 1}
=============================================================================
