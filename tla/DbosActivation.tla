---------------------------- MODULE DbosActivation ----------------------------
(***************************************************************************)
(* One run of the DBOS spike (src/scripts/research/od035/dbos).  Executors *)
(* recover the run's workflow from the checkpoints of its steps, two of    *)
(* them at once when a predecessor is only paused.  The feature's approval *)
(* leaves a row in an outbox, from which a wakeup is sent to the workflow; *)
(* the activation step is fenced by the run's generation and deduplicated  *)
(* by a receipt.                                                           *)
(***************************************************************************)
EXTENDS Naturals

CONSTANTS Executor,       \* executor processes
          Call,           \* requests that approve the run or dispatch its wakeup
          MaxGeneration,  \* bound: generations of the run
          MaxFaults        \* bound: executors killed and calls failed

ASSUME BoundsAssumption ==
    /\ Executor \intersect Call = {}
    /\ MaxGeneration \in Nat \ {0}
    /\ MaxFaults \in Nat

None == "none"

\* Neither an executor nor a call is the marker of a free lock.
ASSUME HolderAssumption == None \notin Executor \union Call

VARIABLES
    approved, counter, generation,  \* the run's row, as committed
    receipts,   \* command ids with a receipt
    outbox,     \* the approval's outbox row: None, "pending" or "published"
    lock,       \* who holds the row lock: an executor, a call or None
    call,       \* per call: where it stands and the executor that serves it
    message,    \* is a wakeup waiting in the workflow's mailbox?
    sent,       \* was the wakeup ever sent?
    wf,         \* the workflow's status
    recorded,   \* how many of the workflow's steps have a checkpoint
    output,     \* the recorded result of the activation step, or None
    up,         \* the executors that run
    gen,        \* the generation each running executor was started with
    flow,       \* per executor: where its run of the workflow stands
    faults       \* executors killed and calls failed so far

row    == <<approved, counter, generation, receipts, outbox>>
engine == <<message, sent, wf, recorded, output>>
hosts  == <<up, gen, faults>>
vars   == <<row, lock, call, engine, flow, hosts>>

\* The workflow's durable operations, in order.
Started   == 1
Waiting   == 2
Received  == 3
Activated == 4
Steps     == 4

NoCall == [at |-> "idle", on |-> None]

\* n: steps behind it; at: where it is in the next one; do: what the
\* activation decided; ans: its result.
Idle == [at |-> "idle", n |-> 0, do |-> None, ans |-> None]

Init ==
    /\ approved = FALSE /\ counter = 0 /\ generation = 1
    /\ receipts = {} /\ outbox = None /\ lock = None
    /\ call = [c \in Call |-> NoCall]
    /\ message = FALSE /\ sent = FALSE
    /\ wf = "PENDING" /\ recorded = 0 /\ output = None
    /\ up = {} /\ gen = [e \in Executor |-> 1]
    /\ flow = [e \in Executor |-> Idle]
    /\ faults = 0

-----------------------------------------------------------------------------
(* approve() and publishApprovalWakeup().                                  *)

At(c, at) == call' = [call EXCEPT ![c].at = at]

Ended(calls) == call' = [c \in Call |-> IF c \in calls THEN NoCall ELSE call[c]]

\* An approval reaches an executor and takes the row lock.
ApproveLock(c, e) ==
    /\ call[c].at = "idle" /\ e \in up
    /\ lock = None
    /\ lock' = c
    /\ call' = [call EXCEPT ![c] = [at |-> "approving", on |-> e]]
    /\ UNCHANGED <<row, engine, flow, hosts>>

\* The approval without its outbox row: a mutant of OutboxAfterApproval.
NoOutboxRow == outbox

\* The outbox after an approval that is not a repetition.
OutboxAfterApproval == "pending"

\* COMMIT; a repeated command changes nothing.
ApproveCommit(c) ==
    /\ call[c].at = "approving"
    /\ \/ /\ "approve" \in receipts
          /\ UNCHANGED row
       \/ /\ "approve" \notin receipts
          /\ approved' = TRUE
          /\ receipts' = receipts \union {"approve"}
          /\ outbox' = OutboxAfterApproval
          /\ UNCHANGED <<counter, generation>>
    /\ lock' = None
    /\ At(c, "publishing")
    /\ UNCHANGED <<engine, flow, hosts>>

\* 'dispatch-approval': publish without approving.
Dispatch(c, e) ==
    /\ call[c].at = "idle" /\ e \in up
    /\ call' = [call EXCEPT ![c] = [at |-> "publishing", on |-> e]]
    /\ UNCHANGED <<row, lock, engine, flow, hosts>>

ReadOutbox(c) ==
    /\ call[c].at = "publishing"
    /\ IF outbox = "pending" THEN At(c, "sending") ELSE Ended({c})
    /\ UNCHANGED <<row, lock, engine, flow, hosts>>

\* DBOS.send with the row's id as its key: a second one adds no message
\* while the first is there, and may once it was received.
Send(c) ==
    /\ call[c].at = "sending"
    /\ sent' = TRUE
    /\ message' \in IF sent THEN {message, TRUE} ELSE {TRUE}
    /\ At(c, "marking")
    /\ UNCHANGED <<row, lock, wf, recorded, output, flow, hosts>>

MarkPublished(c) ==
    /\ call[c].at = "marking"
    /\ outbox' = "published"
    /\ Ended({c})
    /\ UNCHANGED <<approved, counter, generation, receipts, lock, engine, flow,
                   hosts>>

\* A statement of the call fails; an open transaction is rolled back.
CallFails(c) ==
    /\ call[c].at # "idle" /\ faults < MaxFaults
    /\ faults' = faults + 1
    /\ lock' = IF lock = c THEN None ELSE lock
    /\ Ended({c})
    /\ UNCHANGED <<row, engine, flow, up, gen>>

-----------------------------------------------------------------------------
(* The workflow, run by every executor that recovered it.                  *)

To(e, at) == flow' = [flow EXCEPT ![e].at = at]

\* launch() recovers a pending workflow; its recorded steps are replayed.
Recover(e) ==
    /\ e \in up /\ flow[e].at = "idle"
    /\ wf = "PENDING"
    /\ flow' = [flow EXCEPT ![e] = [Idle EXCEPT !.at = "step", !.n = recorded]]
    /\ UNCHANGED <<row, lock, call, engine, hosts>>

\* A step is at its start: the workflow goes on, or was ended meanwhile.
AtStep(e, n) == flow[e].at = "step" /\ flow[e].n = n /\ wf = "PENDING"

\* A step already recorded, by this executor or another, is not run again.
Adopt(e) ==
    /\ flow[e].at = "step" /\ flow[e].n < recorded
    /\ wf = "PENDING"
    /\ flow' = [flow EXCEPT ![e].n = @ + 1]
    /\ UNCHANGED <<row, lock, call, engine, hosts>>

\* checkpoint('started'), the sleep and checkpoint('waiting').
Checkpoint(e) ==
    /\ \E n \in {Started, Waiting} :
          /\ AtStep(e, n - 1) /\ recorded = n - 1
          /\ recorded' = n
          /\ flow' = [flow EXCEPT ![e].n = n]
    /\ UNCHANGED <<row, lock, call, message, sent, wf, output, hosts>>

\* recv() takes the message and records it in one transaction.
Receive(e) ==
    /\ AtStep(e, Waiting) /\ recorded = Waiting
    /\ message
    /\ message' = FALSE
    /\ recorded' = Received
    /\ flow' = [flow EXCEPT ![e].n = Received]
    /\ UNCHANGED <<row, lock, call, sent, wf, output, hosts>>

\* 120 seconds without a message: 'approval timeout' ends the workflow.
ReceiveTimeout(e) ==
    /\ AtStep(e, Waiting) /\ recorded = Waiting
    /\ ~message
    /\ wf' = "ERROR"
    /\ To(e, "idle")
    /\ UNCHANGED <<row, lock, call, message, sent, recorded, output, hosts>>

\* The workflow ended under an executor that was about to take a step.
Abandon(e) ==
    /\ flow[e].at = "step" /\ wf # "PENDING"
    /\ To(e, "idle")
    /\ UNCHANGED <<row, lock, call, engine, hosts>>

\* The activation step calls the feature; nothing stops it from here on.
BeginEffect(e) ==
    /\ AtStep(e, Received) /\ recorded = Received
    /\ To(e, "begun")
    /\ UNCHANGED <<row, lock, call, engine, hosts>>

\* SELECT without FOR UPDATE: a mutant of RowLock.
NoRowLock(e) == None

RowLock(e) == e

\* The decision of activate() on the row it locked.
Decision(e) ==
    CASE gen[e] # generation      -> "fence"
      [] gen[e] = generation /\ "activate" \in receipts -> "repeat"
      [] gen[e] = generation /\ "activate" \notin receipts /\ approved
                                  -> "activate"
      [] gen[e] = generation /\ "activate" \notin receipts /\ ~approved
                                  -> "reject"

EffectLock(e) ==
    /\ flow[e].at = "begun"
    /\ lock = None
    /\ lock' = RowLock(e)
    /\ flow' = [flow EXCEPT ![e].at = "locked", ![e].do = Decision(e)]
    /\ UNCHANGED <<row, call, engine, hosts>>

Unlocked(x) == IF lock = x THEN None ELSE lock

Answer(e) == IF flow[e].do = "fence" THEN "fenced" ELSE "activated"

\* COMMIT; the primary key refuses a second receipt.
EffectCommit(e) ==
    /\ flow[e].at = "locked" /\ flow[e].do # "reject"
    /\ \/ /\ flow[e].do = "activate" /\ "activate" \notin receipts
          /\ counter' = counter + 1
          /\ receipts' = receipts \union {"activate"}
       \/ /\ flow[e].do \in {"fence", "repeat"}
          /\ UNCHANGED <<counter, receipts>>
    /\ lock' = Unlocked(e)
    /\ flow' = [flow EXCEPT ![e].at = "returned", ![e].do = None,
                            ![e].ans = Answer(e)]
    /\ UNCHANGED <<approved, generation, outbox, call, engine, hosts>>

\* The counter updated outside the transaction: a mutant of RolledBack.
CounterKept(e) == IF flow[e].at = "locked" /\ flow[e].do = "activate"
                  THEN counter + 1 ELSE counter

\* What ROLLBACK, or a lost connection, leaves of the counter.
RolledBack(e) == counter

\* A step that throws, which is not retried, ends the workflow.
Failed == [wf |-> "ERROR", output |-> None]

\* A statement fails, or the feature rejects the activation.
EffectFails(e) ==
    /\ flow[e].at \in {"begun", "locked"}
    /\ counter' = RolledBack(e)
    /\ lock' = Unlocked(e)
    /\ To(e, "idle")
    /\ \/ /\ wf = "PENDING" /\ recorded = Received
          /\ wf' = Failed.wf /\ output' = Failed.output
       \/ /\ wf # "PENDING" \/ recorded # Received
          /\ UNCHANGED <<wf, output>>
    /\ UNCHANGED <<approved, generation, receipts, outbox, call, message, sent,
                   recorded, hosts>>

\* The first result recorded for the step is the one that stays.
Record(e) ==
    /\ flow[e].at = "returned"
    /\ \/ /\ wf = "PENDING" /\ recorded = Received
          /\ recorded' = Activated /\ output' = flow[e].ans
       \/ /\ wf # "PENDING" \/ recorded # Received
          /\ UNCHANGED <<recorded, output>>
    /\ flow' = [flow EXCEPT ![e] = [Idle EXCEPT !.at = "step", !.n = Activated]]
    /\ UNCHANGED <<row, lock, call, message, sent, wf, hosts>>

\* The workflow returns; its optional second recv changes no state here.
Finish(e) ==
    /\ AtStep(e, Activated)
    /\ wf' = "SUCCESS"
    /\ To(e, "idle")
    /\ UNCHANGED <<row, lock, call, message, sent, recorded, output, hosts>>

-----------------------------------------------------------------------------
(* The harness.                                                            *)

\* DBOS.cancelWorkflow
CancelWorkflow ==
    /\ up # {}
    /\ wf = "PENDING"
    /\ wf' = "CANCELLED"
    /\ UNCHANGED <<row, lock, call, message, sent, recorded, output, flow,
                   hosts>>

\* The run passes to the next generation, which waits for the row lock.
Supersede ==
    /\ generation < MaxGeneration
    /\ lock = None
    /\ generation' = generation + 1
    /\ UNCHANGED <<approved, counter, receipts, outbox, lock, call, engine,
                   flow, hosts>>

\* A new executor, of the run's generation.
Launch(e) ==
    /\ e \notin up
    /\ up' = up \union {e}
    /\ gen' = [gen EXCEPT ![e] = generation]
    /\ UNCHANGED <<row, lock, call, engine, flow, faults>>

\* SIGKILL: its calls and its run of the workflow are gone.
Kill(e) ==
    /\ e \in up /\ faults < MaxFaults
    /\ faults' = faults + 1
    /\ up' = up \ {e}
    /\ lock' = IF lock = e \/ \E c \in Call : lock = c /\ call[c].on = e
               THEN None ELSE lock
    /\ counter' = RolledBack(e)
    /\ Ended({c \in Call : call[c].on = e})
    /\ gen' = [gen EXCEPT ![e] = 1]
    /\ flow' = [flow EXCEPT ![e] = Idle]
    /\ UNCHANGED <<approved, generation, receipts, outbox, engine>>

-----------------------------------------------------------------------------
CallStep(c) == ApproveCommit(c) \/ ReadOutbox(c) \/ Send(c) \/ MarkPublished(c)

FlowStep(e) ==
    \/ Recover(e) \/ Adopt(e) \/ Checkpoint(e) \/ Receive(e) \/ Abandon(e)
    \/ BeginEffect(e) \/ EffectLock(e) \/ EffectCommit(e) \/ Record(e)
    \/ Finish(e)

Next ==
    \/ \E c \in Call : \/ \E e \in Executor : ApproveLock(c, e) \/ Dispatch(c, e)
                       \/ CallStep(c) \/ CallFails(c)
    \/ \E e \in Executor : \/ FlowStep(e) \/ EffectFails(e) \/ ReceiveTimeout(e)
                           \/ Launch(e) \/ Kill(e)
    \/ CancelWorkflow \/ Supersede

Spec == Init /\ [][Next]_vars

\* Calls and executors go on, row locks are granted in turn, a killed executor
\* is replaced and the outbox is dispatched again and again.
FairSpec ==
    /\ Spec
    /\ \A e \in Executor : SF_vars(FlowStep(e))
    /\ \A c \in Call : WF_vars(CallStep(c))
    /\ WF_vars(up = {} /\ \E e \in Executor : Launch(e))
    /\ SF_vars(\E c \in Call, e \in Executor : Dispatch(c, e))

-----------------------------------------------------------------------------
\* Only an executor of the run's generation changes the run, however long a
\* superseded one was paused: the generation is compared under the row lock.
StaleFenced ==
    [][counter' # counter =>
         \E e \in Executor : flow[e].at = "locked" /\ gen[e] = generation]_vars

Contract == INSTANCE ActivationContract
                WITH effects <- counter,
                     status  <- IF counter = 0 THEN "waiting" ELSE "active"

\* The executors implement the feature's contract: one effect, and only after
\* an approval, for steps that are run again and by two executors at once.
ImplementsContract == Contract!Spec

\* An approval leads to the activation, through killed executors and failed
\* calls, unless the workflow was cancelled, failed, or recorded the answer of
\* a superseded executor.
ApprovalActivates ==
    approved ~> \/ counter = 1
                \/ wf \in {"ERROR", "CANCELLED"}
                \/ output = "fenced"

=============================================================================
