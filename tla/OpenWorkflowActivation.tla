------------------------ MODULE OpenWorkflowActivation ------------------------
(***************************************************************************)
(* One run of the OpenWorkflow spike                                       *)
(* (src/scripts/research/od035/openworkflow).  A worker owns the run under *)
(* a lease it loses when it is paused, and only the owner's checkpoints    *)
(* count; its callbacks go on regardless.  The workflow polls the approval *)
(* between waits for a signal, which is lost unless the run is parked, and *)
(* is failed at a limit of step attempts.  A fenced flow (the harness's    *)
(* "stale") hands the worker's generation to the activation.               *)
(***************************************************************************)
EXTENDS Naturals

CONSTANTS Worker,         \* worker processes
          MaxSteps,       \* step attempts of a run, 1000 in the engine
          MaxGeneration,  \* bound: generations of the run
          MaxSignals,     \* bound: signals sent
          MaxFaults       \* bound: workers killed, leases lost, steps failed

ASSUME BoundsAssumption ==
    /\ MaxSteps \in Nat \ {0} /\ MaxGeneration \in Nat \ {0}
    /\ MaxSignals \in Nat /\ MaxFaults \in Nat

None == "none"

\* No worker is the marker of a free lock.
ASSUME WorkerAssumption == None \notin Worker

VARIABLES
    approved, canceled, generation, counter,  \* the activation's row
    receipt,    \* is the activation command's receipt there?
    lock,       \* the worker that holds the row lock, or None
    run,        \* "running", "completed", "failed" or "canceled"
    pos,        \* the run's recorded position: "read", "wait", "parked", "activate"
    owner,      \* the worker that holds the lease, or None
    steps,      \* step attempts so far
    result,     \* the recorded outcome of the activation, or None
    fenced,     \* does the flow pass a generation?
    up,         \* the workers that run
    local,      \* per worker: what it does for the run
    signals,    \* signals sent so far
    faults      \* workers killed, leases lost and steps failed so far

row    == <<approved, canceled, generation, counter, receipt>>
engine == <<run, pos, owner, steps, result>>
bounds == <<signals, faults>>
vars   == <<row, lock, engine, fenced, up, local, bounds>>

Outcome == {"applied", "duplicate-receipt", "stale-generation", "canceled",
            "approval-pending"}

\* at: "idle", "claimed", "read", "begun", "locked" or "returned"; pos: the
\* position it works on; gen: the generation it was started with; saw: the
\* approval it read; out: the outcome of its activation.
Idle(g) == [at |-> "idle", pos |-> "read", gen |-> g, saw |-> FALSE,
            out |-> None]

Init ==
    /\ approved \in BOOLEAN /\ canceled = FALSE
    /\ generation = 1 /\ counter = 0 /\ receipt = FALSE /\ lock = None
    /\ run = "running" /\ pos = "read" /\ owner = None /\ steps = 0
    /\ result = None
    /\ fenced \in BOOLEAN
    /\ up = {} /\ local = [w \in Worker |-> Idle(1)]
    /\ signals = 0 /\ faults = 0

-----------------------------------------------------------------------------
(* The harness's calls on the business row and on the engine.              *)

\* approve(): an update that waits for the row lock, no signal.
Approve ==
    /\ lock = None
    /\ ~approved
    /\ approved' = TRUE
    /\ UNCHANGED <<canceled, generation, counter, receipt, lock, engine,
                   fenced, up, local, bounds>>

CancelBusiness ==
    /\ lock = None
    /\ ~canceled
    /\ canceled' = TRUE
    /\ UNCHANGED <<approved, generation, counter, receipt, lock, engine,
                   fenced, up, local, bounds>>

\* replace(): the run passes to the next generation.
Replace ==
    /\ lock = None
    /\ generation < MaxGeneration
    /\ generation' = generation + 1
    /\ UNCHANGED <<approved, canceled, counter, receipt, lock, engine, fenced,
                   up, local, bounds>>

\* cancelWorkflowRun(): callbacks that run are not stopped.
CancelRun ==
    /\ run = "running"
    /\ run' = "canceled" /\ owner' = None
    /\ UNCHANGED <<row, lock, pos, steps, result, fenced, up, local, bounds>>

\* sendSignal(): it wakes a parked run, and is lost on any other.
Signal ==
    /\ signals < MaxSignals
    /\ signals' = signals + 1
    /\ pos' = IF run = "running" /\ pos = "parked" THEN "read" ELSE pos
    /\ UNCHANGED <<row, lock, run, owner, steps, result, fenced, up, local,
                   faults>>

-----------------------------------------------------------------------------
(* Workers and leases.                                                     *)

Launch(w) ==
    /\ w \notin up
    /\ up' = up \union {w}
    /\ local' = [local EXCEPT ![w] = Idle(generation)]
    /\ UNCHANGED <<row, lock, engine, fenced, bounds>>

\* SIGKILL: the transaction is rolled back, the lease runs out on its own.
Kill(w) ==
    /\ w \in up /\ faults < MaxFaults
    /\ faults' = faults + 1
    /\ up' = up \ {w}
    /\ lock' = IF lock = w THEN None ELSE lock
    /\ local' = [local EXCEPT ![w] = Idle(@.gen)]
    /\ UNCHANGED <<row, engine, fenced, signals>>

\* 800 ms without a heartbeat: the owner was killed, or is paused.
LeaseLost ==
    /\ owner # None
    /\ \/ /\ local[owner].at = "idle"
          /\ UNCHANGED faults
       \/ /\ local[owner].at # "idle" /\ faults < MaxFaults
          /\ faults' = faults + 1
    /\ owner' = None
    /\ UNCHANGED <<row, lock, run, pos, steps, result, fenced, up, local,
                   signals>>

\* A worker takes a run that is due and replays its recorded steps.
Claim(w) ==
    /\ w \in up /\ local[w].at = "idle"
    /\ run = "running" /\ owner = None /\ pos # "parked"
    /\ owner' = w
    /\ local' = [local EXCEPT ![w].at = "claimed", ![w].pos = pos]
    /\ UNCHANGED <<row, lock, run, pos, steps, result, fenced, up, bounds>>

Owns(w) == owner = w /\ run = "running"

To(w, at) == local' = [local EXCEPT ![w].at = at]

\* A worker that lost the run finds out when it records.
Abandon(w) ==
    /\ local[w].at \in {"claimed", "read", "returned"}
    /\ ~Owns(w)
    /\ To(w, "idle")
    /\ UNCHANGED <<row, lock, engine, fenced, up, bounds>>

-----------------------------------------------------------------------------
(* The workflow "approval".                                                *)

StepsLeft == steps < MaxSteps

\* The limit of step attempts reached, the engine fails the run.
StepLimit(w) ==
    /\ local[w].at = "claimed" /\ local[w].pos # "parked" /\ Owns(w)
    /\ ~StepsLeft
    /\ run' = "failed" /\ owner' = None
    /\ To(w, "idle")
    /\ UNCHANGED <<row, lock, pos, steps, result, fenced, up, bounds>>

\* step.run(read-n): business.approved()
Read(w) ==
    /\ local[w].at = "claimed" /\ local[w].pos = "read"
    /\ Owns(w) /\ StepsLeft
    /\ steps' = steps + 1
    /\ local' = [local EXCEPT ![w].at = "read", ![w].saw = approved]
    /\ UNCHANGED <<row, lock, run, pos, owner, result, fenced, up, bounds>>

RecordRead(w) ==
    /\ local[w].at = "read" /\ Owns(w)
    /\ LET next == IF local[w].saw THEN "activate" ELSE "wait"
       IN /\ pos' = next
          /\ local' = [local EXCEPT ![w].at = "claimed", ![w].pos = next]
    /\ UNCHANGED <<row, lock, run, owner, steps, result, fenced, up, bounds>>

\* step.waitForSignal(wake-n): the run is parked and its slot is free.
Park(w) ==
    /\ local[w].at = "claimed" /\ local[w].pos = "wait"
    /\ Owns(w) /\ StepsLeft
    /\ steps' = steps + 1
    /\ pos' = "parked" /\ owner' = None
    /\ To(w, "idle")
    /\ UNCHANGED <<row, lock, run, result, fenced, up, bounds>>

\* A wait without its 250 ms: a mutant of WakeTimer.
NoTimer == FALSE

\* The wait ends by itself and the approval is read again.
WakeTimer == TRUE

WakeTimeout ==
    /\ WakeTimer
    /\ run = "running" /\ pos = "parked"
    /\ pos' = "read"
    /\ UNCHANGED <<row, lock, run, owner, steps, result, fenced, up, local,
                   bounds>>

\* step.run(activate): from here on the callback is not stopped.
BeginActivate(w) ==
    /\ local[w].at = "claimed" /\ local[w].pos = "activate"
    /\ Owns(w) /\ StepsLeft
    /\ steps' = steps + 1
    /\ To(w, "begun")
    /\ UNCHANGED <<row, lock, run, pos, owner, result, fenced, up, bounds>>

-----------------------------------------------------------------------------
(* activate(), and the record of its outcome.                              *)

RowLock(w) == w

\* What activate() decides on the row it read; the receipt decides later.
Decision(w) ==
    CASE fenced /\ local[w].gen # generation -> "stale-generation"
      [] ~(fenced /\ local[w].gen # generation) /\ canceled -> "canceled"
      [] ~(fenced /\ local[w].gen # generation) /\ ~canceled /\ ~approved
                                             -> "approval-pending"
      [] ~(fenced /\ local[w].gen # generation) /\ ~canceled /\ approved
                                             -> "applied"

LockRow(w) ==
    /\ local[w].at = "begun"
    /\ lock = None
    /\ lock' = RowLock(w)
    /\ local' = [local EXCEPT ![w].at = "locked", ![w].out = Decision(w)]
    /\ UNCHANGED <<row, engine, fenced, up, bounds>>

Unlocked(w) == IF lock = w THEN None ELSE lock

\* The receipt inserted without ON CONFLICT counting: a mutant of IsNew.
AlwaysNew == TRUE

\* INSERT ... ON CONFLICT DO NOTHING RETURNING gave a row.
IsNew == ~receipt

Commit(w) ==
    /\ local[w].at = "locked"
    /\ \/ /\ local[w].out = "applied" /\ IsNew
          /\ receipt' = TRUE /\ counter' = counter + 1
          /\ To(w, "returned")
       \/ /\ local[w].out = "applied" /\ ~IsNew
          /\ local' = [local EXCEPT ![w].at = "returned",
                                    ![w].out = "duplicate-receipt"]
          /\ UNCHANGED <<receipt, counter>>
       \/ /\ local[w].out # "applied"
          /\ To(w, "returned")
          /\ UNCHANGED <<receipt, counter>>
    /\ lock' = Unlocked(w)
    /\ UNCHANGED <<approved, canceled, generation, engine, fenced, up, bounds>>

\* A failed step is attempted again by whoever owns the run.
AfterFailure(w) == Idle(local[w].gen)

\* A statement of activate() fails: ROLLBACK, and the step throws.
StepFails(w) ==
    /\ local[w].at = "locked" /\ faults < MaxFaults
    /\ faults' = faults + 1
    /\ lock' = Unlocked(w)
    /\ local' = [local EXCEPT ![w] = AfterFailure(w)]
    /\ owner' = IF owner = w /\ local'[w].at = "idle" THEN None ELSE owner
    /\ UNCHANGED <<row, run, pos, steps, result, fenced, up, signals>>

\* Only the owner's checkpoint is accepted; it completes the run.
RecordActivate(w) ==
    /\ local[w].at = "returned" /\ Owns(w)
    /\ run' = "completed" /\ result' = local[w].out /\ owner' = None
    /\ To(w, "idle")
    /\ UNCHANGED <<row, lock, pos, steps, fenced, up, bounds>>

-----------------------------------------------------------------------------
Step(w) ==
    \/ Claim(w) \/ Abandon(w) \/ StepLimit(w) \/ Read(w) \/ RecordRead(w)
    \/ Park(w) \/ BeginActivate(w) \/ LockRow(w) \/ Commit(w)
    \/ RecordActivate(w)

Next ==
    \/ Approve \/ CancelBusiness \/ Replace \/ CancelRun \/ Signal
    \/ LeaseLost \/ WakeTimeout
    \/ \E w \in Worker : Launch(w) \/ Kill(w) \/ Step(w) \/ StepFails(w)

Spec == Init /\ [][Next]_vars

\* Workers go on, leases of workers that do nothing run out, waits time out
\* and a killed worker is replaced.
FairSpec ==
    /\ Spec
    /\ \A w \in Worker : WF_vars(Step(w))
    /\ WF_vars(LeaseLost)
    /\ WF_vars(WakeTimeout)
    /\ WF_vars(up = {} /\ \E w \in Worker : Launch(w))

-----------------------------------------------------------------------------
Contract == INSTANCE ActivationContract
                WITH effects <- counter,
                     status  <- IF counter > 0 THEN "active"
                                ELSE IF canceled THEN "cancelled"
                                ELSE "waiting"

\* The workers implement the feature's contract: one effect, after an approval
\* and never after the business cancellation, under lost leases, callbacks
\* that outlive their owner and repeated attempts.
ImplementsContract == Contract!Spec

\* An approval leads to the activation although its signal is lost, unless the
\* run was cancelled, reached its limit of steps, or ended on the answer of a
\* superseded worker.
ApprovalActivates ==
    approved ~> \/ counter = 1 \/ canceled
                \/ run \in {"failed", "canceled"}
                \/ result = "stale-generation"

=============================================================================
