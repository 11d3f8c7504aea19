-------------------------- MODULE EmbeddedEngineProofs --------------------------
(***************************************************************************)
(* The engines that run inside the workers, OpenWorkflow and DBOS: for any *)
(* number of workers, steps, generations, signals, calls and faults, with  *)
(* leases and checkpoints that protect nothing, the row lock and the       *)
(* receipt alone make the workers implement the feature's contract.        *)
(***************************************************************************)
EXTENDS OpenWorkflowActivation, TLAPS

\* What a worker remembers of its attempt is a record of that form.
IsAttempt(s) == DOMAIN s = {"at", "pos", "gen", "saw", "out"}

TypeInv ==
    /\ approved \in BOOLEAN /\ canceled \in BOOLEAN /\ receipt \in BOOLEAN
    /\ lock \in Worker \union {None}
    /\ DOMAIN local = Worker
    /\ \A w \in Worker : IsAttempt(local[w])

\* A transaction is open exactly in the worker that holds the row lock; a
\* worker that was killed holds nothing.
LockInv ==
    /\ \A w \in Worker : local[w].at = "locked" <=> lock = w
    /\ \A w \in Worker : w \notin up => local[w].at = "idle"

\* What a transaction decided on the row it locked is still true of the row.
DecisionInv ==
    \A w \in Worker : local[w].at = "locked" /\ local[w].out = "applied"
                          => approved /\ ~canceled

\* The effect and its receipt are committed together.
CountInv == counter = IF receipt THEN 1 ELSE 0

IInv == TypeInv /\ LockInv /\ DecisionInv /\ CountInv

USE WorkerAssumption DEF None, To, row, engine, bounds

LEMMA InitEstablishes == Init => IInv
<1> SUFFICES ASSUME Init PROVE IInv
  OBVIOUS
<1>1. \A w \in Worker : IsAttempt(local[w]) /\ local[w].at = "idle"
  BY DEF Init, Idle, IsAttempt
<1>2. TypeInv
  BY <1>1 DEF Init, TypeInv
<1>3. LockInv
  BY <1>1 DEF Init, LockInv
<1>4. DecisionInv /\ CountInv
  BY <1>1 DEF Init, DecisionInv, CountInv
<1> QED  BY <1>2, <1>3, <1>4 DEF IInv

\* A step that leaves the row, the lock and the workers alone keeps IInv.
LEMMA Untouched ==
  ASSUME IInv, UNCHANGED <<row, lock, up, local>>
  PROVE  IInv'
  BY DEF IInv, TypeInv, LockInv, DecisionInv, CountInv

\* So does one that changes only the row, while nobody has it locked.
LEMMA RowChanged ==
  ASSUME IInv, lock = None, UNCHANGED <<lock, up, local, counter, receipt>>,
         approved' \in BOOLEAN, canceled' \in BOOLEAN
  PROVE  IInv'
  BY DEF IInv, TypeInv, LockInv, DecisionInv, CountInv

\* So does one of one worker that runs, outside a transaction before and after.
LEMMA Outside ==
  ASSUME IInv, NEW w \in Worker, NEW s, IsAttempt(s),
         UNCHANGED <<row, lock>>,
         local' = [local EXCEPT ![w] = s],
         local[w].at # "locked", s.at # "locked",
         up' = up \/ (up' = up \union {w} /\ s.at = "idle"),
         w \in up'
  PROVE  IInv'
  BY DEF IInv, TypeInv, LockInv, DecisionInv, CountInv

\* So does one that ends the transaction of a worker, or kills the worker.
LEMMA Ends ==
  ASSUME IInv, NEW w \in Worker, NEW s, IsAttempt(s),
         UNCHANGED <<approved, canceled, generation>>,
         receipt' \in BOOLEAN, CountInv',
         lock' = IF lock = w THEN None ELSE lock,
         local' = [local EXCEPT ![w] = s], s.at # "locked",
         \/ up' = up /\ local[w].at = "locked"
         \/ up' = up \ {w} /\ s.at = "idle"
  PROVE  IInv'
  BY DEF IInv, TypeInv, LockInv, DecisionInv

LEMMA StepPreserves ==
  ASSUME IInv, NEW w \in Worker, Step(w)
  PROVE  IInv'
<1>0. IsAttempt(local[w]) /\ DOMAIN local = Worker
  BY DEF IInv, TypeInv
<1>1. local[w].at # "idle" => w \in up
  BY DEF IInv, LockInv
<1>2. CASE Claim(w)
  <2> DEFINE s == [local[w] EXCEPT !.at = "claimed", !.pos = pos]
  <2>1. IsAttempt(s) /\ s.at = "claimed"  BY <1>0 DEF IsAttempt
  <2>2. local' = [local EXCEPT ![w] = s]   BY <1>0, <1>2 DEF Claim
  <2> HIDE DEF s
  <2> QED  BY <1>0, <1>2, <2>1, <2>2, Outside DEF Claim
<1>3. CASE Abandon(w)
  <2> DEFINE s == [local[w] EXCEPT !.at = "idle"]
  <2>1. IsAttempt(s) /\ s.at = "idle"     BY <1>0 DEF IsAttempt
  <2>2. local' = [local EXCEPT ![w] = s]   BY <1>0, <1>3 DEF Abandon
  <2> HIDE DEF s
  <2> QED  BY <1>0, <1>1, <1>3, <2>1, <2>2, Outside DEF Abandon
<1>4. CASE StepLimit(w)
  <2> DEFINE s == [local[w] EXCEPT !.at = "idle"]
  <2>1. IsAttempt(s) /\ s.at = "idle"     BY <1>0 DEF IsAttempt
  <2>2. local' = [local EXCEPT ![w] = s]   BY <1>0, <1>4 DEF StepLimit
  <2> HIDE DEF s
  <2> QED  BY <1>0, <1>1, <1>4, <2>1, <2>2, Outside DEF StepLimit
<1>5. CASE Read(w)
  <2> DEFINE s == [local[w] EXCEPT !.at = "read", !.saw = approved]
  <2>1. IsAttempt(s) /\ s.at = "read"     BY <1>0 DEF IsAttempt
  <2>2. local' = [local EXCEPT ![w] = s]   BY <1>0, <1>5 DEF Read
  <2> HIDE DEF s
  <2> QED  BY <1>0, <1>1, <1>5, <2>1, <2>2, Outside DEF Read
<1>6. CASE RecordRead(w)
  <2> DEFINE next == IF local[w].saw THEN "activate" ELSE "wait"
             s == [local[w] EXCEPT !.at = "claimed", !.pos = next]
  <2>1. IsAttempt(s) /\ s.at = "claimed"  BY <1>0 DEF IsAttempt
  <2>2. local' = [local EXCEPT ![w] = s] /\ pos' = next
    BY <1>0, <1>6 DEF RecordRead
  <2> HIDE DEF s, next
  <2> QED  BY <1>0, <1>1, <1>6, <2>1, <2>2, Outside DEF RecordRead
<1>7. CASE Park(w)
  <2> DEFINE s == [local[w] EXCEPT !.at = "idle"]
  <2>1. IsAttempt(s) /\ s.at = "idle"     BY <1>0 DEF IsAttempt
  <2>2. local' = [local EXCEPT ![w] = s]   BY <1>0, <1>7 DEF Park
  <2> HIDE DEF s
  <2> QED  BY <1>0, <1>1, <1>7, <2>1, <2>2, Outside DEF Park
<1>8. CASE BeginActivate(w)
  <2> DEFINE s == [local[w] EXCEPT !.at = "begun"]
  <2>1. IsAttempt(s) /\ s.at = "begun"    BY <1>0 DEF IsAttempt
  <2>2. local' = [local EXCEPT ![w] = s]   BY <1>0, <1>8 DEF BeginActivate
  <2> HIDE DEF s
  <2> QED  BY <1>0, <1>1, <1>8, <2>1, <2>2, Outside DEF BeginActivate
<1>9. CASE LockRow(w)
  <2>1. Decision(w) = "applied" => approved /\ ~canceled
    BY DEF Decision, IInv, TypeInv
  <2> DEFINE s == [local[w] EXCEPT !.at = "locked", !.out = Decision(w)]
  <2>2. IsAttempt(s) /\ s.at = "locked" /\ s.out = Decision(w)  BY <1>0, <2>1 DEF IsAttempt
  <2>3. local' = [local EXCEPT ![w] = s]   BY <1>0, <1>9 DEF LockRow
  <2> HIDE DEF s
  <2> QED  BY <1>0, <1>1, <1>9, <2>1, <2>2, <2>3
      DEF LockRow, RowLock, IInv, TypeInv, LockInv, DecisionInv, CountInv
<1>10. CASE Commit(w)
  <2>1. PICK o : local' = [local EXCEPT ![w].at = "returned", ![w].out = o]
    <3>1. CASE local[w].out = "applied" /\ ~IsNew  BY <1>10, <3>1 DEF Commit
    <3>2. CASE ~(local[w].out = "applied" /\ ~IsNew)
      <4>1. local' = [local EXCEPT ![w].at = "returned", ![w].out = local[w].out]
        BY <1>0, <1>10, <3>2 DEF Commit
      <4> QED  BY <4>1
    <3> QED  BY <3>1, <3>2
  <2> DEFINE s == [local[w] EXCEPT !.at = "returned", !.out = o]
  <2>2. IsAttempt(s) /\ s.at = "returned" BY <1>0 DEF IsAttempt
  <2>3. local' = [local EXCEPT ![w] = s]   BY <1>0, <2>1
  <2>4. CountInv' /\ receipt' \in BOOLEAN
    <3>1. CountInv /\ receipt \in BOOLEAN  BY DEF IInv, TypeInv
    <3>2. CASE receipt' = TRUE /\ counter' = counter + 1 /\ ~receipt
      BY <3>1, <3>2 DEF CountInv
    <3>3. CASE UNCHANGED <<receipt, counter>>
      BY <3>1, <3>3 DEF CountInv
    <3> QED  BY <1>10, <3>2, <3>3 DEF Commit, IsNew
  <2> HIDE DEF s
  <2> QED  BY <1>10, <2>2, <2>3, <2>4, Ends DEF Commit, Unlocked
<1>11. CASE RecordActivate(w)
  <2> DEFINE s == [local[w] EXCEPT !.at = "idle"]
  <2>1. IsAttempt(s) /\ s.at = "idle"     BY <1>0 DEF IsAttempt
  <2>2. local' = [local EXCEPT ![w] = s]   BY <1>0, <1>11 DEF RecordActivate
  <2> HIDE DEF s
  <2> QED  BY <1>0, <1>1, <1>11, <2>1, <2>2, Outside DEF RecordActivate
<1> QED  BY <1>2, <1>3, <1>4, <1>5, <1>6, <1>7, <1>8, <1>9, <1>10, <1>11 DEF Step

LEMMA NextPreserves == IInv /\ [Next]_vars => IInv'
<1> SUFFICES ASSUME IInv, [Next]_vars PROVE IInv'
  OBVIOUS
<1>0. TypeInv  BY DEF IInv
<1>1. CASE Approve
  BY <1>0, <1>1, RowChanged DEF Approve, TypeInv
<1>2. CASE CancelBusiness
  BY <1>0, <1>2, RowChanged DEF CancelBusiness, TypeInv
<1>3. CASE Replace
  BY <1>0, <1>3, RowChanged DEF Replace, TypeInv
<1>4. CASE CancelRun \/ Signal \/ LeaseLost \/ WakeTimeout
  BY <1>0, <1>4, Untouched DEF CancelRun, Signal, LeaseLost, WakeTimeout, TypeInv
<1>5. ASSUME NEW w \in Worker, Launch(w) PROVE IInv'
  <2>1. IsAttempt(Idle(generation)) /\ Idle(generation).at = "idle"
    BY <1>0 DEF Idle, IsAttempt, TypeInv
  <2>2. local[w].at # "locked"
    BY <1>5 DEF IInv, LockInv, Launch
  <2> QED  BY <1>0, <1>5, <2>1, <2>2, Outside DEF Launch, TypeInv
<1>6. ASSUME NEW w \in Worker, Kill(w) PROVE IInv'
  <2> DEFINE s == Idle(local[w].gen)
  <2>1. IsAttempt(s) /\ s.at = "idle"
    BY <1>0 DEF Idle, IsAttempt, TypeInv
  <2>2. local' = [local EXCEPT ![w] = s]
    BY <1>0, <1>6 DEF Kill, TypeInv
  <2>3. CountInv' /\ receipt' \in BOOLEAN
    BY <1>6 DEF Kill, IInv, CountInv, TypeInv
  <2> HIDE DEF s
  <2> QED  BY <1>6, <2>1, <2>2, <2>3, Ends DEF Kill
<1>7. ASSUME NEW w \in Worker, StepFails(w) PROVE IInv'
  <2> DEFINE s == AfterFailure(w)
  <2>1. IsAttempt(s) /\ s.at = "idle"
    BY <1>0 DEF AfterFailure, Idle, IsAttempt, TypeInv
  <2>2. CountInv' /\ receipt' \in BOOLEAN
    BY <1>7 DEF StepFails, IInv, CountInv, TypeInv
  <2>3. local' = [local EXCEPT ![w] = s]
    BY <1>7 DEF StepFails
  <2> HIDE DEF s
  <2> QED  BY <1>7, <2>1, <2>2, <2>3, Ends DEF StepFails, Unlocked
<1>8. CASE UNCHANGED vars
  BY <1>0, <1>8, Untouched DEF vars, TypeInv
<1> QED  BY <1>1, <1>2, <1>3, <1>4, <1>5, <1>6, <1>7, <1>8, StepPreserves DEF Next

LEMMA Invariant == Spec => []IInv
  BY InitEstablishes, NextPreserves, PTL DEF Spec

-----------------------------------------------------------------------------
\* A step that leaves the row alone is none of the contract's.
LEMMA RowStutters ==
  ASSUME UNCHANGED row
  PROVE  [Contract!Next]_Contract!runVars
  BY DEF Contract!runVars

LEMMA StepImplements ==
  ASSUME IInv, [Next]_vars
  PROVE  [Contract!Next]_Contract!runVars
<1> USE DEF Contract!runVars, Contract!Next
<1>0. TypeInv /\ CountInv  BY DEF IInv
<1>1. CASE Approve
  BY <1>1 DEF Approve, Contract!Approve
<1>2. CASE CancelBusiness
  BY <1>0, <1>2 DEF CancelBusiness, Contract!Cancel, TypeInv, CountInv
<1>3. CASE Replace
  BY <1>3 DEF Replace
<1>4. CASE CancelRun \/ Signal \/ LeaseLost \/ WakeTimeout \/ UNCHANGED vars
  BY <1>4, RowStutters DEF CancelRun, Signal, LeaseLost, WakeTimeout, vars
<1>5. ASSUME NEW w \in Worker, Commit(w) PROVE [Contract!Next]_Contract!runVars
  <2>1. CASE local[w].out = "applied" /\ IsNew
    <3>1. approved /\ ~canceled
      BY <1>5, <2>1 DEF Commit, IInv, DecisionInv
    <3>2. counter = 0 /\ counter' = 1
      BY <1>0, <1>5, <2>1 DEF Commit, IsNew, CountInv
    <3> QED  BY <1>5, <3>1, <3>2 DEF Commit, Contract!Activate
  <2>2. CASE ~(local[w].out = "applied" /\ IsNew)
    BY <1>5, <2>2, RowStutters DEF Commit
  <2> QED  BY <2>1, <2>2
<1>6. ASSUME NEW w \in Worker,
             Launch(w) \/ Kill(w) \/ StepFails(w) \/ (Step(w) /\ ~Commit(w))
      PROVE  [Contract!Next]_Contract!runVars
  BY <1>6, RowStutters
  DEF Launch, Kill, StepFails, Step, Claim, Abandon, StepLimit, Read, RecordRead,
      Park, BeginActivate, LockRow, RecordActivate
<1> QED  BY <1>1, <1>2, <1>3, <1>4, <1>5, <1>6 DEF Next

\* Whatever happens to leases, signals and workers, a run has at most one
\* effect, after an approval and never after the business cancellation: what
\* activate() in business-postgres.ts does under its row lock is enough.
THEOREM WorkersImplementContract == Spec => ImplementsContract
<1>1. Init => Contract!Init
  BY DEF Init, Contract!Init
<1>2. IInv /\ [Next]_vars => [Contract!Next]_Contract!runVars
  BY StepImplements
<1> QED  BY <1>1, <1>2, Invariant, PTL DEF Spec, ImplementsContract, Contract!Spec

\* The run has one effect exactly when it is active, which takes an approval, and
\* what became of it is final: nothing a worker does later changes it, neither a
\* repeated activate() nor a business cancellation (business-postgres.ts).
THEOREM WorkersActivateOnce == Spec => []Contract!OneEffect /\ Contract!Settled
<1> USE DEF Contract!runVars
<1>1. Contract!Init => Contract!OneEffect
  BY DEF Contract!Init, Contract!OneEffect
<1>2. Contract!OneEffect /\ [Contract!Next]_Contract!runVars => Contract!OneEffect'
  BY DEF Contract!OneEffect, Contract!Next, Contract!Approve, Contract!Cancel,
     Contract!Activate
<1>3. [Contract!Next]_Contract!runVars => [Contract!KeepsSettled]_Contract!runVars
  BY DEF Contract!KeepsSettled, Contract!Next, Contract!Approve, Contract!Cancel,
     Contract!Activate
<1> QED  BY <1>1, <1>2, <1>3, WorkersImplementContract, PTL
         DEF ImplementsContract, Contract!Spec, Contract!Settled

\* A committed effect has its receipt and there is one: the receipt of the
\* command's id, inserted under the row lock, is what makes a repeated
\* activate() harmless.
THEOREM EffectHasReceipt == Spec => [](counter = IF receipt THEN 1 ELSE 0)
<1>1. IInv => counter = IF receipt THEN 1 ELSE 0
  BY DEF IInv, CountInv
<1> QED  BY <1>1, Invariant, PTL

-----------------------------------------------------------------------------
(* DBOS.  Its executors share no state with the workers above: the names   *)
(* both specifications declare (approved, counter, generation, lock, up,   *)
(* faults) stand here for the variables of the DBOS run.                   *)

CONSTANTS Executor, Call
VARIABLES receipts, outbox, call, message, sent, wf, recorded, output, gen, flow

Dbos == INSTANCE DbosActivation

IsCall(s) == DOMAIN s = {"at", "on"}
IsFlow(s) == DOMAIN s = {"at", "n", "do", "ans"}

DbosTypes ==
    /\ approved \in BOOLEAN
    /\ lock \in Executor \union Call \union {None}
    /\ DOMAIN call = Call /\ DOMAIN flow = Executor /\ DOMAIN gen = Executor
    /\ \A c \in Call : IsCall(call[c])
    /\ \A e \in Executor : IsFlow(flow[e])

\* A transaction is open exactly in the call or the executor that holds the
\* row lock; an executor that was killed holds nothing.
DbosLock ==
    /\ \A c \in Call : call[c].at = "approving" <=> lock = c
    /\ \A e \in Executor : flow[e].at = "locked" <=> lock = e
    /\ \A e \in Executor : e \notin up => flow[e].at = "idle"

\* What the activation decided on the row it locked is still true of the row.
DbosDecision ==
    \A e \in Executor : flow[e].at = "locked" /\ flow[e].do = "activate"
        => approved /\ gen[e] = generation /\ "activate" \notin receipts

\* The effect and its receipt are committed together.
DbosCount == counter = IF "activate" \in receipts THEN 1 ELSE 0

DbosInv == DbosTypes /\ DbosLock /\ DbosDecision /\ DbosCount

USE DEF Dbos!None, Dbos!To, Dbos!At, Dbos!row, Dbos!engine, Dbos!hosts

\* An executor is no call, and neither is the marker of a free lock.
Holders == /\ Executor \intersect Call = {}
           /\ None \notin Executor /\ None \notin Call

LEMMA DbosInitEstablishes == ASSUME Holders, Dbos!Init PROVE DbosInv
<1>1. /\ \A c \in Call : IsCall(call[c]) /\ call[c].at = "idle"
      /\ \A e \in Executor : IsFlow(flow[e]) /\ flow[e].at = "idle"
  BY DEF Dbos!Init, Dbos!Idle, Dbos!NoCall, IsCall, IsFlow
<1>2. DbosTypes
  BY <1>1 DEF Dbos!Init, DbosTypes
<1>3. DbosLock
  BY <1>1 DEF Dbos!Init, DbosLock, Holders
<1>4. DbosDecision /\ DbosCount
  BY <1>1 DEF Dbos!Init, DbosDecision, DbosCount
<1> QED  BY <1>2, <1>3, <1>4 DEF DbosInv

\* A step of a call that runs, outside a transaction before and after.
LEMMA CallOutside ==
  ASSUME DbosInv, NEW c \in Call, NEW s, IsCall(s),
         call' = [call EXCEPT ![c] = s],
         UNCHANGED <<approved, counter, generation, receipts, lock, flow, up, gen>>,
         call[c].at # "approving", s.at # "approving"
  PROVE  DbosInv'
  BY DEF DbosInv, DbosTypes, DbosLock, DbosDecision, DbosCount

\* A step of an executor's run of the workflow, outside a transaction too.
LEMMA FlowOutside ==
  ASSUME DbosInv, NEW e \in Executor, NEW s, IsFlow(s),
         flow' = [flow EXCEPT ![e] = s],
         UNCHANGED <<approved, counter, generation, receipts, lock, call, up, gen>>,
         e \in up \/ s.at = "idle", flow[e].at # "locked", s.at # "locked"
  PROVE  DbosInv'
  BY DEF DbosInv, DbosTypes, DbosLock, DbosDecision, DbosCount

LEMMA CallsPreserve ==
  ASSUME Holders, DbosInv, NEW c \in Call,
         \/ \E e \in Executor : Dbos!ApproveLock(c, e) \/ Dbos!Dispatch(c, e)
         \/ Dbos!CallStep(c) \/ Dbos!CallFails(c)
  PROVE  DbosInv'
<1>0. /\ IsCall(call[c]) /\ DOMAIN call = Call /\ DbosTypes /\ DbosLock
      /\ c \notin Executor /\ c # None
  BY DEF DbosInv, DbosTypes, Holders
<1>1. ASSUME NEW e \in Executor, Dbos!ApproveLock(c, e) PROVE DbosInv'
  <2> DEFINE s == [at |-> "approving", on |-> e]
  <2>1. IsCall(s) /\ s.at = "approving"
    BY DEF IsCall
  <2>2. call' = [call EXCEPT ![c] = s] /\ lock = None /\ lock' = c
    BY <1>1 DEF Dbos!ApproveLock
  <2> HIDE DEF s
  <2> QED  BY <1>0, <1>1, <2>1, <2>2 DEF Dbos!ApproveLock, Holders, DbosInv,
             DbosTypes, DbosLock, DbosDecision, DbosCount
<1>2. ASSUME NEW e \in Executor, Dbos!Dispatch(c, e) PROVE DbosInv'
  <2> DEFINE s == [at |-> "publishing", on |-> e]
  <2>1. IsCall(s) /\ s.at = "publishing"
    BY DEF IsCall
  <2>2. call' = [call EXCEPT ![c] = s]
    BY <1>2 DEF Dbos!Dispatch
  <2> HIDE DEF s
  <2> QED  BY <1>2, <2>1, <2>2, CallOutside DEF Dbos!Dispatch
<1>3. CASE Dbos!ApproveCommit(c)
  <2> DEFINE s == [call[c] EXCEPT !.at = "publishing"]
  <2>1. IsCall(s) /\ s.at = "publishing"
    BY <1>0 DEF IsCall
  <2>2. call' = [call EXCEPT ![c] = s]
    BY <1>0, <1>3 DEF Dbos!ApproveCommit
  <2>3. lock = c /\ lock' = None
    BY <1>0, <1>3 DEF Dbos!ApproveCommit, DbosLock
  <2>4. /\ approved' \in BOOLEAN /\ UNCHANGED <<counter, generation>>
        /\ "activate" \in receipts' <=> "activate" \in receipts
    BY <1>0, <1>3 DEF Dbos!ApproveCommit, DbosTypes
  <2> HIDE DEF s
  <2>5. DbosTypes'
    BY <1>0, <1>3, <2>1, <2>2, <2>3, <2>4 DEF Dbos!ApproveCommit, DbosTypes
  <2>6. DbosLock'
    BY <1>0, <1>3, <2>1, <2>2, <2>3 DEF Dbos!ApproveCommit, DbosTypes, DbosLock, Holders
  <2>7. \A e \in Executor : flow'[e].at # "locked"
    BY <1>0, <1>3, <2>3 DEF Dbos!ApproveCommit, DbosLock
  <2>8. DbosDecision' /\ DbosCount'
    BY <2>4, <2>7 DEF DbosInv, DbosDecision, DbosCount
  <2> QED  BY <2>5, <2>6, <2>8 DEF DbosInv
<1>4. ASSUME NEW a \in {"sending", "marking"},
             call' = [call EXCEPT ![c].at = a],
             call[c].at # "approving",
             UNCHANGED <<approved, counter, generation, receipts, lock, flow, up, gen>>
      PROVE  DbosInv'
  <2> DEFINE s == [call[c] EXCEPT !.at = a]
  <2>1. IsCall(s) /\ s.at # "approving"
    BY <1>0, <1>4 DEF IsCall
  <2>2. call' = [call EXCEPT ![c] = s]
    BY <1>0, <1>4
  <2> HIDE DEF s
  <2> QED  BY <1>4, <2>1, <2>2, CallOutside
<1>5. /\ IsCall(Dbos!NoCall) /\ Dbos!NoCall.at = "idle"
      /\ Dbos!Ended({c}) => call' = [call EXCEPT ![c] = Dbos!NoCall]
  <2>1. IsCall(Dbos!NoCall) /\ Dbos!NoCall.at = "idle"
    BY DEF Dbos!NoCall, IsCall
  <2>2. ASSUME Dbos!Ended({c}) PROVE call' = [call EXCEPT ![c] = Dbos!NoCall]
    BY <1>0, <2>2 DEF Dbos!Ended
  <2> QED  BY <2>1, <2>2
<1>6. ASSUME Dbos!Ended({c}), call[c].at # "approving",
             UNCHANGED <<approved, counter, generation, receipts, lock, flow, up, gen>>
      PROVE  DbosInv'
  BY <1>5, <1>6, CallOutside
<1>7. CASE Dbos!ReadOutbox(c)
  BY <1>4, <1>6, <1>7 DEF Dbos!ReadOutbox
<1>8. CASE Dbos!Send(c)
  BY <1>4, <1>8 DEF Dbos!Send
<1>9. CASE Dbos!MarkPublished(c)
  BY <1>6, <1>9 DEF Dbos!MarkPublished
<1>10. CASE Dbos!CallFails(c)
  <2>1. call' = [call EXCEPT ![c] = Dbos!NoCall]
    BY <1>5, <1>10 DEF Dbos!CallFails
  <2>2. DbosTypes'
    BY <1>0, <1>5, <1>10, <2>1 DEF Dbos!CallFails, DbosTypes
  <2>3. DbosLock'
    BY <1>0, <1>5, <1>10, <2>1 DEF Dbos!CallFails, DbosTypes, DbosLock, Holders
  <2>4. DbosDecision' /\ DbosCount'
    BY <1>10 DEF Dbos!CallFails, DbosInv, DbosDecision, DbosCount
  <2> QED  BY <2>2, <2>3, <2>4 DEF DbosInv
<1> QED  BY <1>1, <1>2, <1>3, <1>7, <1>8, <1>9, <1>10 DEF Dbos!CallStep

LEMMA FlowPreserves ==
  ASSUME Holders, DbosInv, NEW e \in Executor,
         \/ Dbos!FlowStep(e) \/ Dbos!EffectFails(e) \/ Dbos!ReceiveTimeout(e)
         \/ Dbos!Launch(e) \/ Dbos!Kill(e)
  PROVE  DbosInv'
<1>0. /\ IsFlow(flow[e]) /\ DOMAIN flow = Executor /\ DOMAIN gen = Executor
      /\ DbosTypes /\ DbosLock /\ DbosDecision /\ DbosCount
      /\ e \notin Call /\ e # None
  BY DEF DbosInv, DbosTypes, Holders
<1>1. flow[e].at # "idle" => e \in up
  BY <1>0 DEF DbosLock
<1>2. ASSUME NEW s, IsFlow(s), s.at \in {"step", "begun"},
             flow' = [flow EXCEPT ![e] = s],
             e \in up, flow[e].at # "locked",
             UNCHANGED <<approved, counter, generation, receipts, lock, call, up, gen>>
      PROVE  DbosInv'
  BY <1>2, FlowOutside
<1>3. CASE Dbos!Recover(e)
  <2> DEFINE s == [Dbos!Idle EXCEPT !.at = "step", !.n = recorded]
  <2>1. IsFlow(s) /\ s.at = "step"
    BY DEF Dbos!Idle, IsFlow
  <2>2. flow' = [flow EXCEPT ![e] = s]
    BY <1>3 DEF Dbos!Recover
  <2> HIDE DEF s
  <2> QED  BY <1>2, <1>3, <2>1, <2>2 DEF Dbos!Recover
<1>4. ASSUME NEW n, flow' = [flow EXCEPT ![e].n = n], flow[e].at = "step",
             UNCHANGED <<approved, counter, generation, receipts, lock, call, up, gen>>
      PROVE  DbosInv'
  <2> DEFINE s == [flow[e] EXCEPT !.n = n]
  <2>1. IsFlow(s) /\ s.at = "step"
    BY <1>0, <1>4 DEF IsFlow
  <2>2. flow' = [flow EXCEPT ![e] = s]
    BY <1>0, <1>4
  <2> HIDE DEF s
  <2> QED  BY <1>1, <1>2, <1>4, <2>1, <2>2
<1>5. CASE Dbos!Adopt(e) \/ Dbos!Checkpoint(e) \/ Dbos!Receive(e)
  <2>1. CASE Dbos!Adopt(e)
    <3>1. flow' = [flow EXCEPT ![e].n = flow[e].n + 1]
      BY <2>1 DEF Dbos!Adopt
    <3> QED  BY <1>4, <2>1, <3>1 DEF Dbos!Adopt
  <2>2. CASE Dbos!Checkpoint(e)
    BY <1>4, <2>2 DEF Dbos!Checkpoint, Dbos!AtStep
  <2>3. CASE Dbos!Receive(e)
    BY <1>4, <2>3 DEF Dbos!Receive, Dbos!AtStep
  <2> QED  BY <1>5, <2>1, <2>2, <2>3
<1>6. ASSUME NEW a \in {"idle", "begun"}, flow' = [flow EXCEPT ![e].at = a],
             flow[e].at = "step",
             UNCHANGED <<approved, counter, generation, receipts, lock, call, up, gen>>
      PROVE  DbosInv'
  <2> DEFINE s == [flow[e] EXCEPT !.at = a]
  <2>1. IsFlow(s) /\ s.at = a
    BY <1>0, <1>6 DEF IsFlow
  <2>2. flow' = [flow EXCEPT ![e] = s]
    BY <1>0, <1>6
  <2> HIDE DEF s
  <2> QED  BY <1>1, <1>6, <2>1, <2>2, FlowOutside
<1>7. CASE \/ Dbos!ReceiveTimeout(e) \/ Dbos!Abandon(e) \/ Dbos!BeginEffect(e)
           \/ Dbos!Finish(e)
  BY <1>6, <1>7 DEF Dbos!ReceiveTimeout, Dbos!Abandon, Dbos!BeginEffect,
     Dbos!Finish, Dbos!AtStep
<1>8. CASE Dbos!EffectLock(e)
  <2> DEFINE s == [flow[e] EXCEPT !.at = "locked", !.do = Dbos!Decision(e)]
  <2>1. Dbos!Decision(e) = "activate" =>
            approved /\ gen[e] = generation /\ "activate" \notin receipts
    BY <1>0 DEF Dbos!Decision, DbosTypes
  <2>2. IsFlow(s) /\ s.at = "locked" /\ s.do = Dbos!Decision(e)
    BY <1>0 DEF IsFlow
  <2>3. flow' = [flow EXCEPT ![e] = s] /\ lock = None /\ lock' = e
    BY <1>0, <1>8 DEF Dbos!EffectLock, Dbos!RowLock
  <2> HIDE DEF s
  <2>4. DbosTypes' /\ DbosCount'
    BY <1>0, <1>8, <2>2, <2>3 DEF Dbos!EffectLock, DbosTypes, DbosCount
  <2>5. DbosLock'
    BY <1>0, <1>1, <1>8, <2>2, <2>3 DEF Dbos!EffectLock, DbosTypes, DbosLock, Holders
  <2>6. DbosDecision'
    BY <1>0, <1>8, <2>1, <2>2, <2>3 DEF Dbos!EffectLock, DbosDecision
  <2> QED  BY <2>4, <2>5, <2>6 DEF DbosInv
<1>9. ASSUME NEW s, IsFlow(s), s.at \in {"returned", "idle"},
             flow' = [flow EXCEPT ![e] = s],
             lock' = IF lock = e THEN None ELSE lock,
             e \in up, DbosCount',
             UNCHANGED <<approved, generation, call, up, gen>>,
             UNCHANGED receipts \/ lock = e
      PROVE  DbosInv'
  <2>1. DbosTypes'
    BY <1>0, <1>9 DEF DbosTypes
  <2>2. DbosLock'
    BY <1>0, <1>9 DEF DbosTypes, DbosLock, Holders
  <2>3. DbosDecision'
    <3> SUFFICES ASSUME NEW x \in Executor, flow'[x].at = "locked",
                        flow'[x].do = "activate"
                 PROVE  approved /\ gen[x] = generation /\ "activate" \notin receipts'
      BY <1>9 DEF DbosDecision
    <3>1. flow'[x] = flow[x] /\ x # e
      BY <1>0, <1>9
    <3>2. lock = x
      BY <1>0, <3>1 DEF DbosLock
    <3> QED  BY <1>0, <1>9, <3>1, <3>2 DEF DbosDecision
  <2> QED  BY <1>9, <2>1, <2>2, <2>3 DEF DbosInv
<1>10. CASE Dbos!EffectCommit(e)
  <2> DEFINE s == [flow[e] EXCEPT !.at = "returned", !.do = None, !.ans = Dbos!Answer(e)]
  <2>1. IsFlow(s) /\ s.at = "returned"
    BY <1>0 DEF IsFlow
  <2>2. flow' = [flow EXCEPT ![e] = s]
    BY <1>0, <1>10 DEF Dbos!EffectCommit
  <2>3. lock = e
    BY <1>0, <1>10 DEF Dbos!EffectCommit, DbosLock
  <2>4. DbosCount'
    BY <1>0, <1>10 DEF Dbos!EffectCommit, DbosCount
  <2> HIDE DEF s
  <2> QED  BY <1>1, <1>9, <1>10, <2>1, <2>2, <2>3, <2>4
           DEF Dbos!EffectCommit, Dbos!Unlocked
<1>11. CASE Dbos!EffectFails(e)
  <2> DEFINE s == [flow[e] EXCEPT !.at = "idle"]
  <2>1. IsFlow(s) /\ s.at = "idle"
    BY <1>0 DEF IsFlow
  <2>2. flow' = [flow EXCEPT ![e] = s]
    BY <1>0, <1>11 DEF Dbos!EffectFails
  <2>3. DbosCount'
    BY <1>0, <1>11 DEF Dbos!EffectFails, Dbos!RolledBack, DbosCount
  <2> HIDE DEF s
  <2> QED  BY <1>1, <1>9, <1>11, <2>1, <2>2, <2>3
           DEF Dbos!EffectFails, Dbos!Unlocked
<1>12. CASE Dbos!Record(e)
  <2> DEFINE s == [Dbos!Idle EXCEPT !.at = "step", !.n = Dbos!Activated]
  <2>1. IsFlow(s) /\ s.at = "step"
    BY DEF Dbos!Idle, IsFlow
  <2>2. flow' = [flow EXCEPT ![e] = s]
    BY <1>12 DEF Dbos!Record
  <2> HIDE DEF s
  <2> QED  BY <1>1, <1>2, <1>12, <2>1, <2>2 DEF Dbos!Record
<1>13. CASE Dbos!Launch(e)
  <2>1. flow[e].at = "idle"
    BY <1>0, <1>13 DEF Dbos!Launch, DbosLock
  <2>2. DbosTypes' /\ DbosLock' /\ DbosCount'
    BY <1>0, <1>13 DEF Dbos!Launch, DbosTypes, DbosLock, DbosCount
  <2>3. DbosDecision'
    BY <1>0, <1>13, <2>1 DEF Dbos!Launch, DbosDecision
  <2> QED  BY <2>2, <2>3 DEF DbosInv
<1>14. CASE Dbos!Kill(e)
  <2>1. flow' = [flow EXCEPT ![e] = Dbos!Idle] /\ up' = up \ {e}
        /\ gen' = [gen EXCEPT ![e] = 1] /\ UNCHANGED <<approved, generation, receipts, counter>>
    BY <1>14 DEF Dbos!Kill, Dbos!RolledBack
  <2>2. IsFlow(Dbos!Idle) /\ Dbos!Idle.at = "idle"
    BY DEF Dbos!Idle, IsFlow
  <2>3. /\ DOMAIN call' = Call
        /\ \A c \in Call : call'[c] = IF call[c].on = e THEN Dbos!NoCall ELSE call[c]
    BY <1>14 DEF Dbos!Kill, Dbos!Ended
  <2>4. IsCall(Dbos!NoCall) /\ Dbos!NoCall.at = "idle"
    BY DEF Dbos!NoCall, IsCall
  <2>5. lock' = IF lock = e \/ \E c \in Call : lock = c /\ call[c].on = e
                THEN None ELSE lock
    BY <1>14 DEF Dbos!Kill
  <2>6. DbosTypes'
    BY <1>0, <2>1, <2>2, <2>3, <2>4, <2>5 DEF DbosTypes
  <2>7. DbosLock'
    <3>1. ASSUME NEW c \in Call PROVE call'[c].at = "approving" <=> lock' = c
      BY <1>0, <2>3, <2>4, <2>5, <3>1 DEF DbosLock, Holders
    <3>2. ASSUME NEW x \in Executor PROVE flow'[x].at = "locked" <=> lock' = x
      BY <1>0, <2>1, <2>2, <2>5, <3>2 DEF DbosLock, Holders
    <3>3. \A x \in Executor : x \notin up' => flow'[x].at = "idle"
      BY <1>0, <2>1, <2>2 DEF DbosLock
    <3> QED  BY <3>1, <3>2, <3>3 DEF DbosLock
  <2>8. DbosDecision' /\ DbosCount'
    BY <1>0, <2>1, <2>2 DEF DbosDecision, DbosCount
  <2> QED  BY <2>6, <2>7, <2>8 DEF DbosInv
<1> QED  BY <1>3, <1>5, <1>7, <1>8, <1>10, <1>11, <1>12, <1>13, <1>14 DEF Dbos!FlowStep

LEMMA DbosNextPreserves ==
  ASSUME Holders, DbosInv, [Dbos!Next]_Dbos!vars
  PROVE  DbosInv'
<1>1. CASE UNCHANGED Dbos!vars
  BY <1>1 DEF Dbos!vars, DbosInv, DbosTypes, DbosLock, DbosDecision, DbosCount
<1>2. CASE Dbos!CancelWorkflow
  BY <1>2 DEF Dbos!CancelWorkflow, DbosInv, DbosTypes, DbosLock, DbosDecision, DbosCount
<1>3. CASE Dbos!Supersede
  <2>1. \A e \in Executor : flow[e].at # "locked"
    BY <1>3 DEF Dbos!Supersede, DbosInv, DbosLock, Holders
  <2> QED  BY <1>3, <2>1 DEF Dbos!Supersede, DbosInv, DbosTypes, DbosLock,
             DbosDecision, DbosCount
<1> QED  BY <1>1, <1>2, <1>3, CallsPreserve, FlowPreserves DEF Dbos!Next

LEMMA DbosInvariant == ASSUME Holders PROVE Dbos!Spec => []DbosInv
<1>1. Dbos!Init => DbosInv
  BY DbosInitEstablishes
<1>2. DbosInv /\ [Dbos!Next]_Dbos!vars => DbosInv'
  BY DbosNextPreserves
<1> QED  BY <1>1, <1>2, PTL DEF Dbos!Spec

-----------------------------------------------------------------------------
\* A step that leaves the run alone is none of the contract's.
LEMMA DbosStutters ==
  ASSUME UNCHANGED <<approved, counter>>
  PROVE  [Dbos!Contract!Next]_Dbos!Contract!runVars
  BY DEF Dbos!Contract!runVars

\* Only a commit of an approval or of an activation changes the run.
LEMMA DbosChanges ==
  ASSUME [Dbos!Next]_Dbos!vars
  PROVE  \/ UNCHANGED <<approved, counter>>
         \/ \E c \in Call : Dbos!ApproveCommit(c)
         \/ \E e \in Executor : Dbos!EffectCommit(e)
<1>1. CASE UNCHANGED Dbos!vars
  BY <1>1 DEF Dbos!vars
<1>2. CASE Dbos!CancelWorkflow \/ Dbos!Supersede
  BY <1>2 DEF Dbos!CancelWorkflow, Dbos!Supersede
<1>3. ASSUME NEW c \in Call, NEW e \in Executor,
             Dbos!ApproveLock(c, e) \/ Dbos!Dispatch(c, e)
      PROVE  UNCHANGED <<approved, counter>>
  BY <1>3 DEF Dbos!ApproveLock, Dbos!Dispatch
<1>4. ASSUME NEW c \in Call, Dbos!CallStep(c) \/ Dbos!CallFails(c)
      PROVE  UNCHANGED <<approved, counter>> \/ Dbos!ApproveCommit(c)
  BY <1>4 DEF Dbos!CallStep, Dbos!ReadOutbox, Dbos!Send, Dbos!MarkPublished,
     Dbos!CallFails
<1>5. ASSUME NEW e \in Executor, Dbos!FlowStep(e)
      PROVE  UNCHANGED <<approved, counter>> \/ Dbos!EffectCommit(e)
  BY <1>5 DEF Dbos!FlowStep, Dbos!Recover, Dbos!Adopt, Dbos!Checkpoint,
     Dbos!Receive, Dbos!Abandon, Dbos!BeginEffect, Dbos!EffectLock, Dbos!Record,
     Dbos!Finish
<1>6. ASSUME NEW e \in Executor,
             \/ Dbos!EffectFails(e) \/ Dbos!ReceiveTimeout(e)
             \/ Dbos!Launch(e) \/ Dbos!Kill(e)
      PROVE  UNCHANGED <<approved, counter>>
  BY <1>6 DEF Dbos!EffectFails, Dbos!RolledBack, Dbos!ReceiveTimeout,
     Dbos!Launch, Dbos!Kill
<1> QED  BY <1>1, <1>2, <1>3, <1>4, <1>5, <1>6 DEF Dbos!Next

\* What a commit of the activation finds: under the row lock, its decision holds.
LEMMA EffectDecided ==
  ASSUME DbosInv, NEW e \in Executor, Dbos!EffectCommit(e)
  PROVE  \/ UNCHANGED <<approved, counter>>
         \/ /\ approved /\ gen[e] = generation /\ flow[e].at = "locked"
            /\ counter = 0 /\ counter' = 1 /\ UNCHANGED approved
<1>1. CASE flow[e].do = "activate" /\ "activate" \notin receipts
  <2>1. approved /\ gen[e] = generation /\ counter = 0
    BY <1>1 DEF Dbos!EffectCommit, DbosInv, DbosDecision, DbosCount
  <2>2. counter' = counter + 1 /\ flow[e].at = "locked" /\ UNCHANGED approved
    BY <1>1 DEF Dbos!EffectCommit
  <2> QED  BY <2>1, <2>2
<1>2. CASE ~(flow[e].do = "activate" /\ "activate" \notin receipts)
  BY <1>2 DEF Dbos!EffectCommit
<1> QED  BY <1>1, <1>2

\* A superseded executor changes nothing, however long it was paused: what it
\* compares under the row lock is the generation it was started with
\* (dbos/business.ts:48-66).
THEOREM DbosFencesStale ==
  ASSUME Dbos!BoundsAssumption, Dbos!HolderAssumption
  PROVE  Dbos!Spec => Dbos!StaleFenced
<1>1. Holders
  BY DEF Holders, Dbos!BoundsAssumption, Dbos!HolderAssumption
<1>2. ASSUME DbosInv, [Dbos!Next]_Dbos!vars
      PROVE  [counter' # counter => \E e \in Executor :
                  flow[e].at = "locked" /\ gen[e] = generation]_Dbos!vars
  <2>1. ASSUME NEW c \in Call, Dbos!ApproveCommit(c) PROVE UNCHANGED counter
    BY <2>1 DEF Dbos!ApproveCommit
  <2> QED  BY <1>2, <2>1, DbosChanges, EffectDecided
<1> QED  BY <1>1, <1>2, DbosInvariant, PTL DEF Dbos!Spec, Dbos!StaleFenced

\* One effect, and only after an approval, although steps are run again and by
\* two executors at once: checkpoints, mailbox and outbox only decide when the
\* activation is called, its row lock and receipt what becomes of the call
\* (dbos/business.ts:24-66).
THEOREM DbosImplementsContract ==
  ASSUME Dbos!BoundsAssumption, Dbos!HolderAssumption
  PROVE  Dbos!Spec => Dbos!ImplementsContract
<1>1. Holders
  BY DEF Holders, Dbos!BoundsAssumption, Dbos!HolderAssumption
<1>2. Dbos!Init => Dbos!Contract!Init
  BY DEF Dbos!Init, Dbos!Contract!Init
<1>3. ASSUME DbosInv, [Dbos!Next]_Dbos!vars
      PROVE  [Dbos!Contract!Next]_Dbos!Contract!runVars
  <2> USE DEF Dbos!Contract!Next, Dbos!Contract!runVars
  <2>1. ASSUME NEW c \in Call, Dbos!ApproveCommit(c)
        PROVE  [Dbos!Contract!Next]_Dbos!Contract!runVars
    BY <2>1 DEF Dbos!ApproveCommit, Dbos!Contract!Approve
  <2>2. ASSUME NEW e \in Executor, Dbos!EffectCommit(e)
        PROVE  [Dbos!Contract!Next]_Dbos!Contract!runVars
    BY <1>3, <2>2, EffectDecided, DbosStutters DEF Dbos!Contract!Activate
  <2> QED  BY <1>3, <2>1, <2>2, DbosChanges, DbosStutters
<1> QED  BY <1>1, <1>2, <1>3, DbosInvariant, PTL
         DEF Dbos!Spec, Dbos!ImplementsContract, Dbos!Contract!Spec

\* A run of DBOS has one effect exactly when it is active, which takes an approval,
\* and an active run stays as it is, whatever step is run again
\* (dbos/business.ts:24-66).
THEOREM DbosActivatesOnce ==
  ASSUME Dbos!BoundsAssumption, Dbos!HolderAssumption
  PROVE  Dbos!Spec => []Dbos!Contract!OneEffect /\ Dbos!Contract!Settled
<1> USE DEF Dbos!Contract!runVars
<1>1. Dbos!Contract!Init => Dbos!Contract!OneEffect
  BY DEF Dbos!Contract!Init, Dbos!Contract!OneEffect
<1>2. Dbos!Contract!OneEffect /\ [Dbos!Contract!Next]_Dbos!Contract!runVars
        => Dbos!Contract!OneEffect'
  BY DEF Dbos!Contract!OneEffect, Dbos!Contract!Next, Dbos!Contract!Approve,
     Dbos!Contract!Cancel, Dbos!Contract!Activate
<1>3. [Dbos!Contract!Next]_Dbos!Contract!runVars
        => [Dbos!Contract!KeepsSettled]_Dbos!Contract!runVars
  BY DEF Dbos!Contract!KeepsSettled, Dbos!Contract!Next, Dbos!Contract!Approve,
     Dbos!Contract!Cancel, Dbos!Contract!Activate
<1> QED  BY <1>1, <1>2, <1>3, DbosImplementsContract, PTL
         DEF Dbos!ImplementsContract, Dbos!Contract!Spec, Dbos!Contract!Settled

=============================================================================
