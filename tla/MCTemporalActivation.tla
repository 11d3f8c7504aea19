------------------------- MODULE MCTemporalActivation -------------------------
(* Two worker processes, a retried activity, a repeated approval.          *)
EXTENDS TemporalActivation

CONSTANTS w1, w2

Workers == {w1, w2}

=============================================================================
