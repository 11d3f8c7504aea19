------------------------- MODULE ActivationContract --------------------------
(***************************************************************************)
(* What the feature that owns a run promises, whatever engine drives it:   *)
(* the run is activated at most once, with one effect, only after it was   *)
(* approved, and never once it was cancelled.                              *)
(***************************************************************************)
EXTENDS Naturals

VARIABLES approved,  \* was the run approved?
          status,    \* "waiting", "active" or "cancelled"
          effects    \* effects of the activation

runVars == <<approved, status, effects>>

\* A run may be created approved.
Init ==
    /\ approved \in BOOLEAN
    /\ status = "waiting"
    /\ effects = 0

Approve ==
    /\ approved' = TRUE
    /\ UNCHANGED <<status, effects>>

Cancel ==
    /\ status = "waiting"
    /\ status' = "cancelled"
    /\ UNCHANGED <<approved, effects>>

Activate ==
    /\ approved
    /\ status = "waiting"
    /\ status' = "active"
    /\ effects' = effects + 1
    /\ UNCHANGED approved

Next == Approve \/ Cancel \/ Activate

Spec == Init /\ [][Next]_runVars

-----------------------------------------------------------------------------
(* What the contract comes to.                                             *)

\* There is one effect when the run is active and none otherwise, and an active
\* run was approved (scripts/research/od035: the one activation the business
\* tables of all three spikes admit).
OneEffect ==
    /\ effects = IF status = "active" THEN 1 ELSE 0
    /\ status = "active" => approved

\* A step that leaves alone what became of the run, and its approval.
KeepsSettled ==
    /\ status # "waiting" => UNCHANGED <<status, effects>>
    /\ approved => approved'
\* What became of a run is final: an active or cancelled run keeps its status
\* and its effects, and no approval is taken back.
Settled == [][KeepsSettled]_runVars

=============================================================================
