----------------------- MODULE MCOpenWorkflowActivation -----------------------
(* Two workers, a superseded generation, a lost lease.                     *)
EXTENDS OpenWorkflowActivation

CONSTANTS w1, w2

Workers  == {w1, w2}

=============================================================================
