-------------------------- MODULE TemporalActivation --------------------------
(***************************************************************************)
(* One run of the Temporal spike (src/scripts/research/od035/temporal):    *)
(* the activation workflow re-reads the run its feature owns, waits for an *)
(* approval signal or two seconds, and has an activity activate the run.   *)
(* The Temporal server keeps the workflow's history, retries activities    *)
(* and refuses late completions; the workers that run workflow tasks and   *)
(* activities are killed, paused and replaced by other versions; the run   *)
(* and its receipts are rows of PostgreSQL.                                *)
(***************************************************************************)
EXTENDS Naturals, Sequences, SequencesExt

CONSTANTS Worker,        \* worker processes
          MaxAttempts,   \* retry.maximumAttempts
          MaxApprovals,  \* bound: calls of approve()
          MaxKills       \* bound: workers killed by the driver

ASSUME BoundsAssumption ==
    /\ MaxAttempts \in Nat \ {0}
    /\ MaxApprovals \in Nat
    /\ MaxKills \in Nat

Attempt  == 1 .. MaxAttempts
Approver == 0               \* as the holder of the row lock
Free     == MaxAttempts + 1 \* the row is not locked
None     == "none"

Status  == {"waiting", "active", "cancelled"}
Version == <<"v1", "incompatible", "v2">>  \* in the order they are released

VARIABLES
    approved, status, effects,  \* the run's row, as committed
    receipts,    \* command ids accepted for the run
    lock,        \* who holds the row lock
    appr,        \* the driver's approve(): "idle", "open" or "committed"
    approvals,   \* approve() calls begun
    signalled,   \* was the workflow signalled after an approval committed?
    prelude,     \* input.beforeWaitMs > 0
    history,     \* commands recorded up to the first read
    wf,          \* where the workflow stands
    notified,    \* the flag the signal handler sets
    obs,         \* the result of the current readState activity, or NoRead
    tries,       \* attempts of the current activity, the current one included
    att,         \* the attempts of the activate activity
    ret,         \* its recorded result, or None
    result,      \* what the workflow returned, or None
    ver,         \* the version a worker process runs, or "down"
    released,    \* index of the last version deployed
    rejected,    \* was a workflow task failed for nondeterminism?
    kills        \* workers killed so far

row     == <<approved, status, effects, receipts, lock>>
driver  == <<appr, approvals, signalled>>
flow    == <<prelude, history, wf, notified, obs, result>>
server  == <<tries, ret>>
workers == <<ver, released, rejected, kills>>
vars    == <<row, driver, flow, server, att, workers>>

NoRead == [approved |-> FALSE, status |-> None]

NoAttempt == [at |-> "none", on |-> None, go |-> FALSE, ans |-> None]

Init ==
    /\ approved = FALSE /\ status = "waiting" /\ effects = 0
    /\ receipts = {} /\ lock = Free
    /\ appr = "idle" /\ approvals = 0 /\ signalled = FALSE
    /\ prelude \in BOOLEAN
    /\ history = <<>> /\ wf = "new" /\ notified = FALSE
    /\ obs = NoRead /\ result = None
    /\ tries = 0 /\ ret = None
    /\ att = [k \in Attempt |-> NoAttempt]
    /\ ver \in [Worker -> {"down", "v1"}]
    /\ released = 1 /\ rejected = FALSE /\ kills = 0

-----------------------------------------------------------------------------
(* The driver: approve(), cancel(), and the workflow handle's cancel().    *)

\* approve(): BEGIN, the receipt and the update, which takes the row lock.
ApproveBegin ==
    /\ appr = "idle" /\ approvals < MaxApprovals
    /\ lock = Free
    /\ lock' = Approver /\ appr' = "open" /\ approvals' = approvals + 1
    /\ UNCHANGED <<approved, status, effects, receipts, signalled, flow,
                   server, att, workers>>

ApproveCommit ==
    /\ appr = "open"
    /\ receipts' = receipts \union {"approval"}
    /\ approved' = TRUE
    /\ lock' = Free /\ appr' = "committed"
    /\ UNCHANGED <<status, effects, approvals, signalled, flow, server, att,
                   workers>>

\* The connection is lost before COMMIT: PostgreSQL rolls back.
ApproveLost ==
    /\ appr = "open"
    /\ lock' = Free /\ appr' = "idle"
    /\ UNCHANGED <<approved, status, effects, receipts, approvals, signalled,
                   flow, server, att, workers>>

Open == wf \notin {"done", "failed", "engine_cancelled"}

\* The signal follows the commit; it reaches a workflow that is still open.
Signal ==
    /\ appr = "committed"
    /\ appr' = "idle"
    /\ signalled' = TRUE
    /\ notified' = (notified \/ Open)
    /\ UNCHANGED <<row, approvals, prelude, history, wf, obs, result, server,
                   att, workers>>

\* business.approve() alone: the signal is never sent.
NoSignal ==
    /\ appr = "committed"
    /\ appr' = "idle"
    /\ UNCHANGED <<row, approvals, signalled, flow, server, att, workers>>

\* UPDATE ... WHERE status = 'waiting', which waits for the row lock.
Cancel ==
    /\ lock = Free
    /\ status = "waiting"
    /\ status' = "cancelled"
    /\ UNCHANGED <<approved, effects, receipts, lock, driver, flow, server,
                   att, workers>>

\* handle.cancel(): the workflow ends, an attempt that runs does not.
EngineCancel ==
    /\ Open
    /\ wf' = "engine_cancelled"
    /\ UNCHANGED <<row, driver, prelude, history, notified, obs, result,
                   server, att, workers>>

-----------------------------------------------------------------------------
(* The workflow, replayed by every worker that takes a task of it.         *)

\* activationFlow's commands up to its first read.
V1Code == (IF prelude THEN <<"timer">> ELSE <<>>) \o <<"read">>

\* v2 with a prelude patched() does not guard: a mutant of V2Code.
V2Unpatched == <<"marker", "timer">> \o V1Code

\* patched() is TRUE for a new history and for one that holds its marker.
V2Code == IF history = <<>> \/ Head(history) = "marker"
          THEN <<"marker", "timer">> \o V1Code
          ELSE V1Code

Code(v) == CASE v = "v1" -> V1Code
             [] v = "v2" -> V2Code
             [] v = "incompatible" -> <<"timer">> \o V1Code

\* Replay: the recorded commands are those the code issues again.
Compatible(w) == ver[w] # "down" /\ IsPrefix(history, Code(ver[w]))

\* The workflow runs up to the next command it must wait for.
Advance(w) ==
    /\ wf \in {"new", "woken"}
    /\ Compatible(w)
    /\ LET rest  == SubSeq(Code(ver[w]), Len(history) + 1, Len(Code(ver[w])))
           taken == IF Head(rest) = "marker" THEN SubSeq(rest, 1, 2)
                                             ELSE <<Head(rest)>>
       IN /\ history' = history \o taken
          /\ wf' = IF Last(taken) = "read" THEN "reading" ELSE "sleeping"
          /\ tries' = IF Last(taken) = "read" THEN 1 ELSE 0
    /\ UNCHANGED <<row, driver, prelude, notified, obs, result, ret, att,
                   workers>>

TimerElapsed ==
    /\ wf = "sleeping"
    /\ wf' = "woken"
    /\ UNCHANGED <<row, driver, prelude, history, notified, obs, result,
                   server, att, workers>>

\* The readState activity, on a worker of any version.
ReadState(w) ==
    /\ wf = "reading" /\ obs = NoRead
    /\ ver[w] # "down"
    /\ obs' = [approved |-> approved, status |-> status]
    /\ UNCHANGED <<row, driver, prelude, history, wf, notified, result,
                   server, att, workers>>

\* The flag after the read's result arrived.
NotifiedAfterRead == notified

\* The workflow goes on with the result of the read.
ReadReturned(w) ==
    /\ wf = "reading" /\ obs # NoRead
    /\ Compatible(w)
    /\ obs' = NoRead
    /\ notified' = NotifiedAfterRead
    /\ \/ /\ obs.status = "cancelled"
          /\ wf' = "done" /\ result' = "cancelled" /\ tries' = 0
       \/ /\ obs.status # "cancelled" /\ obs.approved
          /\ wf' = "activating" /\ tries' = 1
          /\ UNCHANGED result
       \/ /\ obs.status # "cancelled" /\ ~obs.approved
          /\ wf' = "waiting" /\ tries' = 0
          /\ UNCHANGED result
    /\ UNCHANGED <<row, driver, prelude, history, ret, att, workers>>

\* A wait without its two seconds: a mutant of WakeTimer.
NoTimer == FALSE

\* condition(() => notified, '2s'): the signal or the timer.
WakeTimer == TRUE

Wake(w) ==
    /\ wf = "waiting"
    /\ Compatible(w)
    /\ notified \/ WakeTimer
    /\ notified' = FALSE
    /\ wf' = "reading" /\ tries' = 1
    /\ UNCHANGED <<row, driver, prelude, history, obs, result, ret, att,
                   workers>>

\* activationFlow returns the status the activity reported.
Complete(w) ==
    /\ wf = "activating" /\ ret # None
    /\ Compatible(w)
    /\ wf' = "done" /\ result' = ret
    /\ UNCHANGED <<row, driver, prelude, history, notified, obs, server, att,
                   workers>>

\* Is a workflow task due?
Ready == \/ wf \in {"new", "woken", "waiting"}
         \/ wf = "reading" /\ obs # NoRead
         \/ wf = "activating" /\ ret # None

\* A worker whose code does not match the history fails the task.
TaskRejected(w) ==
    /\ Ready
    /\ ver[w] # "down" /\ ~Compatible(w)
    /\ ~rejected
    /\ rejected' = TRUE
    /\ UNCHANGED <<row, driver, flow, server, att, ver, released, kills>>

-----------------------------------------------------------------------------
(* The activate activity: its attempts, and the server that retries it.    *)

\* activationDecision() on the row as it is.
Decision == CASE status \in {"cancelled", "active"} -> "stop"
              [] status = "waiting" /\ approved -> "activate"
              [] status = "waiting" /\ ~approved -> "wait"

\* The server hands the current attempt to a worker.
StartAttempt(k, w) ==
    /\ wf = "activating" /\ ret = None /\ k = tries
    /\ att[k].at = "none"
    /\ ver[w] # "down"
    /\ att' = [att EXCEPT ![k].at = "begun", ![k].on = w]
    /\ UNCHANGED <<row, driver, flow, server, workers>>

\* SELECT without FOR UPDATE: a mutant of RowLock.
NoRowLock(k) == Free

\* SELECT ... FOR UPDATE holds the row until the transaction ends.
RowLock(k) == k

LockRow(k) ==
    /\ att[k].at = "begun"
    /\ lock = Free
    /\ lock' = RowLock(k)
    /\ att' = [att EXCEPT ![k].at = "locked",
                          ![k].go = "activate" \notin receipts
                                    /\ Decision = "activate"]
    /\ UNCHANGED <<approved, status, effects, receipts, driver, flow, server,
                   workers>>

Unlocked(k) == IF lock = k THEN Free ELSE lock

\* COMMIT; the primary key refuses a receipt that is there already.
CommitAttempt(k) ==
    /\ att[k].at = "locked"
    /\ \/ /\ att[k].go /\ "activate" \notin receipts
          /\ receipts' = receipts \union {"activate"}
          /\ status' = "active" /\ effects' = effects + 1
       \/ /\ ~att[k].go
          /\ UNCHANGED <<receipts, status, effects>>
    /\ lock' = Unlocked(k)
    /\ att' = [att EXCEPT ![k].at = "committed"]
    /\ UNCHANGED <<approved, driver, flow, server, workers>>

\* What ROLLBACK, or the end of its connection, leaves of an attempt.
RolledBack(k) == receipts

\* The status read under the lock: a mutant of Answer.
LockedAnswer(k) == IF att[k].go THEN "waiting" ELSE status

\* readState() after the transaction.
Answer(k) == status

AnswerAttempt(k) ==
    /\ att[k].at = "committed"
    /\ att' = [att EXCEPT ![k].at = "answered", ![k].ans = Answer(k)]
    /\ UNCHANGED <<row, driver, flow, server, workers>>

\* A statement fails: before COMMIT it is rolled back, after it it is not.
FailAttempt(k) ==
    /\ att[k].at \in {"begun", "locked", "committed"}
    /\ receipts' = RolledBack(k)
    /\ lock' = Unlocked(k)
    /\ att' = [att EXCEPT ![k].at = "failed"]
    /\ UNCHANGED <<approved, status, effects, driver, flow, server, workers>>

\* The server records the current attempt's result and refuses any other.
ReportAttempt(k) ==
    /\ att[k].at = "answered"
    /\ att' = [att EXCEPT ![k].at = "reported"]
    /\ ret' = IF wf = "activating" /\ k = tries THEN att[k].ans ELSE ret
    /\ UNCHANGED <<row, driver, flow, tries, workers>>

\* One attempt too many: a mutant of AttemptsLeft.
OneAttemptMore == tries <= MaxAttempts

AttemptsLeft == tries < MaxAttempts

\* An activity failed or ran into its six seconds: once more, up to
\* MaxAttempts, and then the workflow fails. The attempt may still run.
Retry ==
    /\ \/ wf = "reading" /\ obs = NoRead
       \/ wf = "activating" /\ ret = None /\ att[tries].at # "none"
    /\ \/ /\ AttemptsLeft
          /\ tries' = tries + 1
          /\ UNCHANGED wf
       \/ /\ ~AttemptsLeft
          /\ wf' = "failed"
          /\ UNCHANGED tries
    /\ UNCHANGED <<row, driver, prelude, history, notified, obs, result, ret,
                   att, workers>>

-----------------------------------------------------------------------------
(* The workers.                                                            *)

Running(w) == {k \in Attempt :
                  att[k].on = w
                  /\ att[k].at \in {"begun", "locked", "committed", "answered"}}

\* SIGKILL: PostgreSQL rolls back what the worker had not committed.
Stop(w) ==
    /\ ver[w] # "down"
    /\ ver' = [ver EXCEPT ![w] = "down"]
    /\ att' = [k \in Attempt |->
                  IF k \in Running(w) THEN [att[k] EXCEPT !.at = "failed"]
                                      ELSE att[k]]
    /\ lock' = IF lock \in Running(w) THEN Free ELSE lock
    /\ UNCHANGED <<approved, status, effects, receipts, driver, flow, server,
                   released, rejected>>

Kill(w) == kills < MaxKills /\ kills' = kills + 1 /\ Stop(w)

\* The driver replaces a worker whose workflow tasks are refused.
Retire(w) == rejected /\ ver[w] = "incompatible" /\ Stop(w) /\ UNCHANGED kills

\* The driver starts a worker of the deployed version, or deploys the next
\* ones while none runs: the incompatible one only for a workflow that has
\* read its run, and never once it was refused.
StartWorker(w) ==
    /\ ver[w] = "down"
    /\ \E n \in released .. Len(Version) :
          /\ \A x \in Worker : ver[x] \in {"down", Version[n]}
          /\ Version[n] = "incompatible" =>
                /\ ~rejected
                /\ history # <<>> /\ Last(history) = "read"
                /\ wf # "reading" \/ obs # NoRead
          /\ released' = n
          /\ ver' = [ver EXCEPT ![w] = Version[n]]
    /\ UNCHANGED <<row, driver, flow, server, att, rejected, kills>>

-----------------------------------------------------------------------------
WorkflowStep == \E w \in Worker : Advance(w) \/ ReadReturned(w) \/ Wake(w)
                                 \/ Complete(w)
AttemptStep(k) == \/ \E w \in Worker : StartAttempt(k, w)
                  \/ LockRow(k) \/ CommitAttempt(k) \/ AnswerAttempt(k)
                  \/ ReportAttempt(k)

Next ==
    \/ ApproveBegin \/ ApproveCommit \/ ApproveLost \/ Signal \/ NoSignal
    \/ Cancel \/ EngineCancel
    \/ WorkflowStep \/ TimerElapsed
    \/ \E w \in Worker : ReadState(w) \/ TaskRejected(w)
    \/ \E k \in Attempt : AttemptStep(k) \/ FailAttempt(k)
    \/ Retry
    \/ \E w \in Worker : Kill(w) \/ Retire(w) \/ StartWorker(w)

Spec == Init /\ [][Next]_vars

\* The driver and the workers take their next step, the server fires its
\* timers, and a worker that was killed or refused is replaced.
FairSpec ==
    /\ Spec
    /\ WF_vars(ApproveCommit \/ ApproveLost)
    /\ WF_vars(WorkflowStep)
    /\ WF_vars(TimerElapsed)
    /\ WF_vars(\E w \in Worker : ReadState(w))
    /\ WF_vars(\E w \in Worker : TaskRejected(w))
    /\ WF_vars(\E w \in Worker : Retire(w))
    /\ WF_vars((\A w \in Worker : ver[w] = "down")
               /\ \E w \in Worker : StartWorker(w))
    /\ \A k \in Attempt : WF_vars(AttemptStep(k))
    /\ WF_vars(Retry)

-----------------------------------------------------------------------------
At == {"none", "begun", "locked", "committed", "answered", "reported",
       "failed"}

\* The values each variable may take.
TypeOK ==
    /\ approved \in BOOLEAN /\ status \in Status /\ effects \in Nat
    /\ receipts \subseteq {"approval", "activate"}
    /\ lock \in Attempt \union {Approver, Free}
    /\ appr \in {"idle", "open", "committed"}
    /\ approvals \in 0 .. MaxApprovals /\ signalled \in BOOLEAN
    /\ prelude \in BOOLEAN /\ history \in Seq({"marker", "timer", "read"})
    /\ wf \in {"new", "sleeping", "woken", "reading", "waiting",
               "activating", "done", "failed", "engine_cancelled"}
    /\ notified \in BOOLEAN
    /\ obs \in [approved : BOOLEAN, status : Status] \union {NoRead}
    /\ tries \in 0 .. MaxAttempts
    /\ att \in [Attempt -> [at : At, on : Worker \union {None},
                            go : BOOLEAN, ans : Status \union {None}]]
    /\ ret \in Status \union {None} /\ result \in Status \union {None}
    /\ ver \in [Worker -> {"v1", "incompatible", "v2", "down"}]
    /\ released \in 1 .. 3 /\ rejected \in BOOLEAN
    /\ kills \in 0 .. MaxKills

\* The workflow's result is the run's final status, not one it passed
\* through: no later cancellation or attempt makes it false.
ResultTruthful ==
    result # None => result = status /\ result \in {"active", "cancelled"}

Contract == INSTANCE ActivationContract

\* The workers implement the feature's contract: one effect, after an
\* approval, and none once the run was cancelled.
ImplementsContract == Contract!Spec

\* An approval is acted on, its signal sent or not, through kills and
\* deployments of other versions, unless the workflow was cancelled or an
\* activity failed as often as it may.
ApprovalActivates ==
    approved ~> \/ status \in {"active", "cancelled"}
                \/ wf \in {"failed", "engine_cancelled"}

=============================================================================
