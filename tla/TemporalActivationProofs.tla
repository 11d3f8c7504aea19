----------------------- MODULE TemporalActivationProofs -----------------------
(***************************************************************************)
(* For any number of workers, attempts, approvals and kills, with attempts *)
(* that outlive their timeout and workers of other versions: the row lock  *)
(* and the receipt make the activity implement the feature's contract, and *)
(* what the workflow returns is what became of the run.                    *)
(***************************************************************************)
EXTENDS TemporalActivation, SequenceTheorems, TLAPS

Command == {"marker", "timer", "read"}
Final   == {"active", "cancelled"}

\* What is known of an attempt: a record of that form.
IsAttempt(s) == s \in [at : At, on : Worker \union {None}, go : BOOLEAN,
                       ans : Status \union {None}]

IsRead(s) == s = NoRead \/ s \in [approved : BOOLEAN, status : Status]

RowTypes ==
    /\ approved \in BOOLEAN /\ status \in Status /\ effects \in Nat
    /\ receipts \subseteq {"approval", "activate"}
    /\ lock \in Attempt \union {Approver, Free}
    /\ appr \in {"idle", "open", "committed"}
    /\ approvals \in 0 .. MaxApprovals /\ signalled \in BOOLEAN

FlowTypes ==
    /\ prelude \in BOOLEAN /\ history \in Seq(Command)
    /\ wf \in {"new", "sleeping", "woken", "reading", "waiting",
               "activating", "done", "failed", "engine_cancelled"}
    /\ notified \in BOOLEAN
    /\ IsRead(obs)
    /\ tries \in 0 .. MaxAttempts
    /\ ret \in Status \union {None} /\ result \in Status \union {None}

AttemptTypes ==
    /\ DOMAIN att = Attempt
    /\ att = [k \in Attempt |-> att[k]]
    /\ \A k \in Attempt : IsAttempt(att[k])

WorkerTypes ==
    /\ ver \in [Worker -> {"v1", "incompatible", "v2", "down"}]
    /\ released \in 1 .. 3 /\ rejected \in BOOLEAN
    /\ kills \in 0 .. MaxKills

\* The lock is held by the approval whose transaction is open, or by the
\* attempt whose transaction is, and by nobody else.
LockInv ==
    /\ appr = "open" <=> lock = Approver
    /\ \A k \in Attempt : att[k].at = "locked" <=> lock = k

\* What a transaction decided on the row it locked is still true of the row.
DecisionInv ==
    \A k \in Attempt : att[k].at = "locked" =>
        IF att[k].go THEN approved /\ status = "waiting" /\ "activate" \notin receipts
                     ELSE status \in Final

\* The receipt is committed with the activation.
ReceiptInv == "activate" \in receipts => status = "active"

\* What was read of the run: an approval stays, and so does a final status.
ReadInv ==
    /\ obs.approved => approved
    /\ obs.status \in Final => status = obs.status

\* The activity is called for an approved run only, and its attempts report
\* the status the run ends with.
AnswerInv ==
    /\ wf = "activating" => approved
    /\ \A k \in Attempt :
          /\ att[k].at # "none" => approved
          /\ att[k].at \in {"committed", "answered", "reported"} => status \in Final
          /\ att[k].at = "answered" => att[k].ans = status
    /\ ret # None => ret = status /\ status \in Final
    /\ result # None => result = status /\ status \in Final

\* A workflow that has not read its run yet has no read in its history.
HistoryInv ==
    wf \in {"new", "woken", "sleeping"} => history = <<>> \/ Last(history) # "read"

IInv == /\ RowTypes /\ FlowTypes /\ AttemptTypes /\ WorkerTypes
        /\ LockInv /\ DecisionInv /\ ReceiptInv /\ ReadInv /\ AnswerInv
        /\ HistoryInv

USE BoundsAssumption DEF BoundsAssumption, Attempt, Approver, Free, None, Final, row, driver, flow,
    server, workers

LEMMA InitEstablishes == Init => IInv
<1> SUFFICES ASSUME Init PROVE IInv
  OBVIOUS
<1>1. \A k \in Attempt : IsAttempt(att[k]) /\ att[k].at = "none"
  BY DEF Init, NoAttempt, IsAttempt, At
<1>2. RowTypes
  <2>1. /\ approved = FALSE /\ status = "waiting" /\ effects = 0 /\ receipts = {}
        /\ lock = Free /\ appr = "idle" /\ approvals = 0 /\ signalled = FALSE
    BY DEF Init
  <2>2. approved \in BOOLEAN /\ signalled \in BOOLEAN
    BY <2>1
  <2>3. /\ status \in Status /\ effects \in Nat /\ lock \in Attempt \union {Approver, Free}
        /\ receipts \subseteq {"approval", "activate"}
        /\ approvals \in 0 .. MaxApprovals
    BY <2>1 DEF Status
  <2> QED  BY <2>1, <2>2, <2>3 DEF RowTypes
<1>8. WorkerTypes
  <2>1. ver \in [Worker -> {"down", "v1"}]
    BY DEF Init
  <2>2. ver \in [Worker -> {"v1", "incompatible", "v2", "down"}]
    BY <2>1
  <2>3. released = 1 /\ rejected = FALSE /\ kills = 0
    BY DEF Init
  <2>4. released \in 1 .. 3 /\ kills \in 0 .. MaxKills
    BY <2>3
  <2>5. rejected \in BOOLEAN
    BY <2>3
  <2> QED  BY <2>2, <2>4, <2>5 DEF WorkerTypes
<1>3. FlowTypes
  <2>1. /\ prelude \in BOOLEAN /\ history = <<>> /\ wf = "new" /\ notified = FALSE
        /\ obs = NoRead /\ tries = 0 /\ ret = None /\ result = None
    BY DEF Init
  <2>2. notified \in BOOLEAN
    BY <2>1
  <2>3. history \in Seq(Command) /\ IsRead(obs) /\ tries \in 0 .. MaxAttempts
    BY <2>1, EmptySeq DEF IsRead
  <2> QED  BY <2>1, <2>2, <2>3 DEF FlowTypes
<1>4. AttemptTypes
  BY <1>1 DEF Init, AttemptTypes
<1>5. LockInv /\ DecisionInv
  BY <1>1 DEF Init, LockInv, DecisionInv
<1>6. ReceiptInv /\ ReadInv /\ HistoryInv
  BY DEF Init, ReceiptInv, ReadInv, HistoryInv, NoRead
<1>7. AnswerInv
  BY <1>1 DEF Init, AnswerInv
<1> QED  BY <1>2, <1>3, <1>4, <1>5, <1>6, <1>7, <1>8 DEF IInv

-----------------------------------------------------------------------------
\* A step of the workflow or of the workers, which leaves the run alone.
LEMMA FlowChanged ==
  ASSUME IInv, UNCHANGED <<row, driver, att>>,
         FlowTypes', WorkerTypes', HistoryInv', ReadInv',
         wf' = "activating" => approved,
         ret' # None => ret' = status /\ status \in Final,
         result' # None => result' = status /\ status \in Final
  PROVE  IInv'
<1>1. RowTypes' /\ AttemptTypes'
  BY DEF IInv, RowTypes, AttemptTypes
<1>2. LockInv' /\ DecisionInv' /\ ReceiptInv'
  BY DEF IInv, LockInv, DecisionInv, ReceiptInv
<1>3. AnswerInv'
  BY DEF IInv, AnswerInv
<1> QED  BY <1>1, <1>2, <1>3 DEF IInv

\* A step on the row while no attempt has it locked, which neither takes an
\* approval back nor changes a final status.
LEMMA RowChanged ==
  ASSUME IInv, UNCHANGED <<flow, server, att, workers>>,
         RowTypes', \A k \in Attempt : lock # k /\ lock' # k,
         appr' = "open" <=> lock' = Approver,
         approved => approved', status \in Final => status' = status,
         ReceiptInv'
  PROVE  IInv'
<1>1. FlowTypes' /\ AttemptTypes' /\ WorkerTypes' /\ HistoryInv'
  BY DEF IInv, FlowTypes, AttemptTypes, WorkerTypes, HistoryInv
<1>2. LockInv' /\ DecisionInv'
  BY DEF IInv, LockInv, DecisionInv
<1>3. ReadInv'
  BY DEF IInv, ReadInv
<1>4. AnswerInv'
  BY DEF IInv, AnswerInv
<1> QED  BY <1>1, <1>2, <1>3, <1>4 DEF IInv

\* A step of one attempt, into or out of its transaction.
LEMMA AttemptChanged ==
  ASSUME IInv, NEW k \in Attempt, NEW s, IsAttempt(s),
         att' = [att EXCEPT ![k] = s],
         UNCHANGED <<driver, flow, tries, workers, approved>>, RowTypes',
         ReceiptInv', status \in Final => status' = status,
         lock' = IF s.at = "locked" THEN k
                 ELSE IF lock = k THEN Free ELSE lock,
         s.at = "locked" => lock = Free,
         UNCHANGED <<status, receipts>> \/ lock = k,
         s.at = "locked" =>
             IF s.go THEN approved /\ status' = "waiting" /\ "activate" \notin receipts'
                     ELSE status' \in Final,
         s.at # "none" => approved,
         s.at \in {"committed", "answered", "reported"} => status' \in Final,
         s.at = "answered" => s.ans = status',
         ret' = ret \/ (ret' = status' /\ status' \in Final)
  PROVE  IInv'
<1>0. /\ att'[k] = s /\ \A j \in Attempt : j # k => att'[j] = att[j]
      /\ k # Free /\ k # Approver
  BY DEF IInv, AttemptTypes
<1>1. AttemptTypes' /\ WorkerTypes'
  BY <1>0 DEF IInv, AttemptTypes, WorkerTypes
<1>2. FlowTypes'
  BY DEF IInv, FlowTypes, Status
<1>3. HistoryInv' /\ ReadInv'
  BY DEF IInv, HistoryInv, ReadInv
<1>4. LockInv'
  BY <1>0 DEF IInv, LockInv
<1>5. DecisionInv'
  <2> SUFFICES ASSUME NEW j \in Attempt, att'[j].at = "locked"
               PROVE  IF att'[j].go
                      THEN approved /\ status' = "waiting" /\ "activate" \notin receipts'
                      ELSE status' \in Final
    BY DEF DecisionInv
  <2>1. CASE j = k   BY <1>0, <2>1
  <2>2. CASE j # k
    <3>1. att'[j] = att[j] /\ lock = j  BY <1>0, <2>2 DEF IInv, LockInv
    <3>2. UNCHANGED <<status, receipts>>  BY <2>2, <3>1
    <3> QED  BY <3>1, <3>2 DEF IInv, DecisionInv
  <2> QED  BY <2>1, <2>2
<1>6. AnswerInv'
  <2>1. ASSUME NEW j \in Attempt
        PROVE  /\ att'[j].at # "none" => approved
               /\ att'[j].at \in {"committed", "answered", "reported"} => status' \in Final
               /\ att'[j].at = "answered" => att'[j].ans = status'
    <3>1. CASE j = k   BY <1>0, <3>1
    <3>2. CASE j # k   BY <1>0, <3>2 DEF IInv, AnswerInv
    <3> QED  BY <3>1, <3>2
  <2>2. /\ wf' = "activating" => approved'
        /\ ret' # None => ret' = status' /\ status' \in Final
        /\ result' # None => result' = status' /\ status' \in Final
    BY DEF IInv, AnswerInv
  <2> QED  BY <2>1, <2>2 DEF AnswerInv
<1> QED  BY <1>1, <1>2, <1>3, <1>4, <1>5, <1>6 DEF IInv

-----------------------------------------------------------------------------
\* A first read after commands that are no marker.
IsPlain(s) == /\ s \in Seq(Command) /\ s # <<>> /\ Last(s) = "read"
              /\ \A i \in 1 .. Len(s) : s[i] # "marker"

LEMMA TimerFirst ==
  ASSUME NEW s, IsPlain(s)
  PROVE  IsPlain(<<"timer">> \o s)
<1> DEFINE one == <<"timer">>
           t == one \o s
<1>1. one \in Seq(Command) /\ Len(one) = 1 /\ one[1] = "timer"
  BY DEF Command
<1>2. s \in Seq(Command) /\ Len(s) \in Nat \ {0}
  BY EmptySeq DEF IsPlain
<1> HIDE DEF one
<1>9. /\ t \in Seq(Command) /\ Len(t) = Len(one) + Len(s)
      /\ \A i \in 1 .. Len(one) + Len(s) :
             t[i] = IF i <= Len(one) THEN one[i] ELSE s[i - Len(one)]
  BY <1>1, <1>2, ConcatProperties, Zenon
<1> HIDE DEF t
<1>3. Len(t) = 1 + Len(s) /\ t[1] = "timer"
  BY <1>1, <1>2, <1>9
<1>8. ASSUME NEW i \in 2 .. 1 + Len(s) PROVE t[i] = s[i - 1]
  BY <1>1, <1>2, <1>9
<1>4. t # <<>>
  BY <1>2, <1>3
<1>5. Last(t) = "read"
  BY <1>2, <1>3, <1>8 DEF IsPlain, Last
<1>6. ASSUME NEW i \in 1 .. Len(t) PROVE t[i] # "marker"
  <2>1. CASE i = 1
    BY <1>3, <2>1
  <2>2. CASE i # 1
    <3>1. i \in 2 .. 1 + Len(s) /\ i - 1 \in 1 .. Len(s)
      BY <1>2, <1>3, <2>2
    <3> QED  BY <1>8, <3>1 DEF IsPlain
  <2> QED  BY <2>1, <2>2
<1>7. IsPlain(t)
  BY <1>9, <1>4, <1>5, <1>6 DEF IsPlain
<1> QED  BY <1>7 DEF t, one

\* The commands of every version end in the first read; the marker of a patch
\* comes first and is never alone.
LEMMA CodeReads ==
  ASSUME NEW v \in {"v1", "incompatible", "v2"}
  PROVE  /\ Code(v) \in Seq(Command)
         /\ Len(Code(v)) \in Nat \ {0}
         /\ Last(Code(v)) = "read"
         /\ \A i \in 1 .. Len(Code(v)) :
                Code(v)[i] = "marker" => i = 1 /\ Len(Code(v)) > 2
<1>1. IsPlain(<<"read">>)
  BY DEF IsPlain, Command, Last
<1>2. IsPlain(V1Code)
  <2>1. CASE prelude
    BY <1>1, <2>1, TimerFirst DEF V1Code
  <2>2. CASE ~prelude
    <3>1. V1Code = <<"read">>
      BY <1>1, <2>2, ConcatEmptySeq DEF V1Code, IsPlain
    <3> QED  BY <1>1, <3>1
  <2> QED  BY <2>1, <2>2
<1>3. IsPlain(<<"timer">> \o V1Code)
  BY <1>2, TimerFirst
<1> HIDE DEF V1Code
<1>4. Code(v) \in {V1Code, <<"timer">> \o V1Code, <<"marker", "timer">> \o V1Code}
  BY DEF Code, V2Code
<1>5. CASE IsPlain(Code(v))
  <2> HIDE DEF Code
  <2> QED  BY <1>5, EmptySeq DEF IsPlain
<1>6. CASE Code(v) = <<"marker", "timer">> \o V1Code
  <2> HIDE DEF Code
  <2> DEFINE two == <<"marker", "timer">>
             t == two \o V1Code
  <2>1. two \in Seq(Command) /\ Len(two) = 2 /\ two[1] = "marker" /\ two[2] = "timer"
    BY DEF Command
  <2>2. V1Code \in Seq(Command) /\ Len(V1Code) \in Nat \ {0}
    BY <1>2, EmptySeq DEF IsPlain
  <2> HIDE DEF two
  <2>8. /\ t \in Seq(Command) /\ Len(t) = Len(two) + Len(V1Code)
        /\ \A i \in 1 .. Len(two) + Len(V1Code) :
               t[i] = IF i <= Len(two) THEN two[i] ELSE V1Code[i - Len(two)]
    BY <2>1, <2>2, ConcatProperties, Zenon
  <2> HIDE DEF t
  <2>3. Len(t) = 2 + Len(V1Code) /\ t[2] = "timer"
    BY <2>1, <2>2, <2>8
  <2>7. ASSUME NEW i \in 3 .. 2 + Len(V1Code)
        PROVE  t[i] = V1Code[i - 2] /\ i - 2 \in 1 .. Len(V1Code)
    BY <2>1, <2>2, <2>8
  <2>4. Last(t) = "read"
    BY <1>2, <2>2, <2>3, <2>7 DEF IsPlain, Last
  <2>5. ASSUME NEW i \in 1 .. Len(t), t[i] = "marker" PROVE i = 1
    BY <1>2, <2>2, <2>3, <2>5, <2>7 DEF IsPlain
  <2>6. Code(v) = t
    BY <1>6 DEF t, two
  <2> QED  BY <2>2, <2>3, <2>4, <2>5, <2>6, <2>8
<1> QED  BY <1>2, <1>3, <1>4, <1>5, <1>6

\* A workflow task that does not wait ends with the next command of the code:
\* since the code reads last, a workflow that has not read has one left.
LEMMA AdvanceRecords ==
  ASSUME IInv, NEW w \in Worker, Advance(w)
  PROVE  /\ history' \in Seq(Command) /\ history' # <<>>
         /\ wf' = IF Last(history') = "read" THEN "reading" ELSE "sleeping"
         /\ tries' \in {0, 1}
<1> DEFINE c == Code(ver[w])
           n == Len(history)
           rest == SubSeq(c, n + 1, Len(c))
           taken == IF Head(rest) = "marker" THEN SubSeq(rest, 1, 2) ELSE <<Head(rest)>>
<1>1. ver[w] \in {"v1", "incompatible", "v2"}
  BY DEF Advance, Compatible, IInv, WorkerTypes
<1>2. /\ c \in Seq(Command) /\ Len(c) \in Nat \ {0} /\ Last(c) = "read"
      /\ \A i \in 1 .. Len(c) : c[i] = "marker" => i = 1 /\ Len(c) > 2
  BY <1>1, CodeReads
<1>3. history \in Seq(Command) /\ n \in Nat
  BY DEF IInv, FlowTypes
<1>4. n <= Len(c) /\ SubSeq(history, 1, n) = SubSeq(c, 1, n)
  BY DEF Advance, Compatible, IsPrefix
<1>5. /\ history' = history \o taken
      /\ wf' = IF Last(taken) = "read" THEN "reading" ELSE "sleeping"
      /\ tries' = IF Last(taken) = "read" THEN 1 ELSE 0
  BY DEF Advance
<1>6. history = <<>> \/ Last(history) # "read"
  BY DEF Advance, IInv, HistoryInv
<1> HIDE DEF c
<1>7. n < Len(c)
  <2> SUFFICES ASSUME n = Len(c) PROVE FALSE
    BY <1>2, <1>3, <1>4
  <2>1. \A i \in 1 .. n : history[i] \in Command /\ c[i] \in Command
    BY <1>2, <1>3
  <2>2. SubSeq(history, 1, n)[n] = history[n] /\ SubSeq(c, 1, n)[n] = c[n]
    BY <1>2, <1>3, <2>1, SubSeqProperties
  <2>3. Last(history) = "read" /\ history # <<>>
    BY <1>2, <1>4, <2>2 DEF Last
  <2> QED  BY <1>6, <2>3
<1>8. /\ rest \in Seq(Command) /\ Len(rest) = Len(c) - n
      /\ \A i \in 1 .. Len(c) - n : rest[i] = c[n + i]
  <2>1. \A i \in n + 1 .. Len(c) : c[i] \in Command
    BY <1>2, <1>3
  <2> QED  BY <1>2, <1>3, <1>7, <2>1, SubSeqProperties
<1> HIDE DEF rest
<1>9. Head(rest) = rest[1] /\ rest # <<>> /\ rest[1] \in Command
  BY <1>2, <1>3, <1>7, <1>8
<1>10. taken \in Seq(Command) /\ Len(taken) \in {1, 2}
  <2>1. CASE rest[1] = "marker"
    <3>1. c[n + 1] = "marker" /\ n + 1 \in 1 .. Len(c)
      BY <1>2, <1>3, <1>7, <1>8, <2>1
    <3>2. n = 0 /\ Len(rest) > 2
      BY <1>2, <1>3, <1>8, <3>1
    <3>3. \A i \in 1 .. 2 : rest[i] \in Command
      BY <1>2, <1>8, <3>2
    <3>4. SubSeq(rest, 1, 2) \in Seq(Command) /\ Len(SubSeq(rest, 1, 2)) = 2
      BY <3>3, SubSeqProperties
    <3> QED  BY <1>9, <2>1, <3>4
  <2>2. CASE rest[1] # "marker"
    BY <1>9, <2>2
  <2> QED  BY <2>1, <2>2
<1> HIDE DEF taken
<1>11. /\ history' \in Seq(Command) /\ Len(history') = Len(history) + Len(taken)
       /\ \A i \in 1 .. Len(history) + Len(taken) :
              history'[i] = IF i <= Len(history) THEN history[i]
                                                 ELSE taken[i - Len(history)]
  BY <1>3, <1>5, <1>10, ConcatProperties, Zenon
<1>12. Last(history') = Last(taken) /\ history' # <<>>
  <2> DEFINE last == Len(history) + Len(taken)
  <2>3. last \in 1 .. last /\ ~(last <= Len(history)) /\ last - Len(history) = Len(taken)
    <3>1. \A a \in Nat, b \in {1, 2} :
              a + b \in 1 .. a + b /\ ~(a + b <= a) /\ (a + b) - a = b
      OBVIOUS
    <3> QED  BY <1>3, <1>10, <3>1, Zenon
  <2>4. history'[last] = IF last <= Len(history) THEN history[last]
                                                 ELSE taken[last - Len(history)]
    BY <1>11, <2>3, Zenon
  <2> HIDE DEF last
  <2>5. history'[last] = taken[Len(taken)]
    BY <2>3, <2>4, Zenon
  <2>1. history'[Len(history')] = taken[Len(taken)]
    BY <1>11, <2>5 DEF last
  <2>2. Len(history') # 0
    BY <1>3, <1>10, <1>11
  <2> QED  BY <2>1, <2>2 DEF Last
<1> QED  BY <1>5, <1>11, <1>12

-----------------------------------------------------------------------------
LEMMA DriverPreserves ==
  ASSUME IInv,
         \/ ApproveBegin \/ ApproveCommit \/ ApproveLost \/ Signal \/ NoSignal
         \/ Cancel \/ EngineCancel
  PROVE  IInv'
<1>0. RowTypes /\ FlowTypes /\ LockInv /\ ReceiptInv
  BY DEF IInv
<1>1. CASE ApproveBegin
  <2>1. approvals' \in 0 .. MaxApprovals
    BY <1>0, <1>1 DEF ApproveBegin, RowTypes
  <2>2. RowTypes'
    BY <1>0, <1>1, <2>1 DEF ApproveBegin, RowTypes
  <2>3. \A k \in Attempt : lock # k /\ lock' # k
    BY <1>1 DEF ApproveBegin
  <2>4. ReceiptInv'
    BY <1>0, <1>1 DEF ApproveBegin, ReceiptInv
  <2> QED  BY <1>1, <2>2, <2>3, <2>4, RowChanged DEF ApproveBegin
<1>2. CASE ApproveCommit
  <2>1. lock = Approver /\ lock' = Free
    BY <1>0, <1>2 DEF ApproveCommit, LockInv
  <2>2. RowTypes'
    BY <1>0, <1>2 DEF ApproveCommit, RowTypes
  <2>3. \A k \in Attempt : lock # k /\ lock' # k
    BY <2>1
  <2>4. ReceiptInv'
    BY <1>0, <1>2 DEF ApproveCommit, ReceiptInv
  <2> QED  BY <1>2, <2>1, <2>2, <2>3, <2>4, RowChanged DEF ApproveCommit
<1>3. CASE ApproveLost
  <2>1. lock = Approver /\ lock' = Free
    BY <1>0, <1>3 DEF ApproveLost, LockInv
  <2>2. RowTypes'
    BY <1>0, <1>3 DEF ApproveLost, RowTypes
  <2>3. \A k \in Attempt : lock # k /\ lock' # k
    BY <2>1
  <2>4. ReceiptInv'
    BY <1>0, <1>3 DEF ApproveLost, ReceiptInv
  <2> QED  BY <1>3, <2>1, <2>2, <2>3, <2>4, RowChanged DEF ApproveLost
<1>4. CASE Cancel
  <2>1. RowTypes'
    BY <1>0, <1>4 DEF Cancel, RowTypes, Status
  <2>2. \A k \in Attempt : lock # k /\ lock' # k
    BY <1>4 DEF Cancel
  <2>3. ReceiptInv'
    BY <1>0, <1>4 DEF Cancel, ReceiptInv
  <2>4. appr' = "open" <=> lock' = Approver
    BY <1>0, <1>4 DEF Cancel, LockInv
  <2> QED  BY <1>4, <2>1, <2>2, <2>3, <2>4, RowChanged DEF Cancel
<1>5. CASE Signal \/ NoSignal \/ EngineCancel
  <2>1. RowTypes' /\ AttemptTypes' /\ WorkerTypes'
    <3>1. signalled' \in BOOLEAN /\ appr' \in {"idle", "open", "committed"}
      BY <1>0, <1>5 DEF Signal, NoSignal, EngineCancel, RowTypes
    <3> QED  BY <1>5, <3>1 DEF Signal, NoSignal, EngineCancel, IInv, RowTypes,
                              AttemptTypes, WorkerTypes
  <2>2. FlowTypes'
    <3>1. notified' \in BOOLEAN
      BY <1>0, <1>5 DEF Signal, NoSignal, EngineCancel, FlowTypes
    <3> QED  BY <1>0, <1>5, <3>1 DEF Signal, NoSignal, EngineCancel, FlowTypes, IsRead
  <2>3. LockInv' /\ DecisionInv' /\ ReceiptInv' /\ ReadInv'
    BY <1>5 DEF Signal, NoSignal, EngineCancel, IInv, LockInv, DecisionInv,
                ReceiptInv, ReadInv
  <2>4. AnswerInv' /\ HistoryInv'
    BY <1>5 DEF Signal, NoSignal, EngineCancel, IInv, AnswerInv, HistoryInv
  <2> QED  BY <2>1, <2>2, <2>3, <2>4 DEF IInv
<1> QED  BY <1>1, <1>2, <1>3, <1>4, <1>5

LEMMA WorkflowPreserves ==
  ASSUME IInv, NEW w \in Worker,
         \/ Advance(w) \/ ReadReturned(w) \/ Wake(w) \/ Complete(w)
         \/ ReadState(w) \/ TaskRejected(w)
  PROVE  IInv'
<1>0. RowTypes /\ FlowTypes /\ WorkerTypes /\ ReadInv /\ AnswerInv /\ HistoryInv
  BY DEF IInv
<1> DEFINE Results == /\ ret' # None => ret' = status /\ status \in Final
                      /\ result' # None => result' = status /\ status \in Final
<1>1. CASE Advance(w)
  <2>1. FlowTypes'
    <3>1. tries' \in 0 .. MaxAttempts
      BY <1>1, AdvanceRecords
    <3>2. wf' \in {"reading", "sleeping"} /\ history' \in Seq(Command)
      BY <1>1, AdvanceRecords
    <3> QED  BY <1>0, <1>1, <3>1, <3>2 DEF Advance, FlowTypes, IsRead
  <2>2. WorkerTypes' /\ ReadInv'
    BY <1>0, <1>1 DEF Advance, WorkerTypes, ReadInv
  <2>3. HistoryInv'
    BY <1>1, AdvanceRecords DEF HistoryInv
  <2>4. wf' # "activating"
    BY <1>1, AdvanceRecords
  <2>5. Results
    BY <1>0, <1>1 DEF Advance, AnswerInv
  <2> QED  BY <1>1, <2>1, <2>2, <2>3, <2>4, <2>5, FlowChanged DEF Advance
<1>2. CASE ReadReturned(w)
  <2>1. /\ wf' \in {"done", "activating", "waiting"} /\ tries' \in {0, 1}
        /\ result' \in {result, "cancelled"} /\ obs' = NoRead
        /\ UNCHANGED <<prelude, history, ret>> /\ notified' = notified
    BY <1>2 DEF ReadReturned, NotifiedAfterRead
  <2>2. FlowTypes'
    BY <1>0, <2>1 DEF FlowTypes, IsRead, Status
  <2>3. WorkerTypes' /\ HistoryInv'
    BY <1>0, <1>2, <2>1 DEF ReadReturned, WorkerTypes, HistoryInv
  <2>4. ReadInv'
    BY <2>1 DEF ReadInv, NoRead
  <2>5. wf' = "activating" => approved
    BY <1>0, <1>2 DEF ReadReturned, ReadInv
  <2>6. Results
    BY <1>0, <1>2 DEF ReadReturned, ReadInv, AnswerInv
  <2> QED  BY <1>2, <2>2, <2>3, <2>4, <2>5, <2>6, FlowChanged DEF ReadReturned
<1>3. CASE Wake(w)
  <2>1. FlowTypes'
    <3>1. tries' \in 0 .. MaxAttempts
      BY <1>3 DEF Wake
    <3>2. notified' \in BOOLEAN
      BY <1>3 DEF Wake
    <3> QED  BY <1>0, <1>3, <3>1, <3>2 DEF Wake, FlowTypes, IsRead
  <2>2. WorkerTypes' /\ ReadInv' /\ HistoryInv'
    BY <1>0, <1>3 DEF Wake, WorkerTypes, ReadInv, HistoryInv
  <2>3. Results /\ wf' # "activating"
    BY <1>0, <1>3 DEF Wake, AnswerInv
  <2> QED  BY <1>3, <2>1, <2>2, <2>3, FlowChanged DEF Wake
<1>4. CASE Complete(w)
  <2>1. FlowTypes'
    BY <1>0, <1>4 DEF Complete, FlowTypes, IsRead
  <2>2. WorkerTypes' /\ ReadInv' /\ HistoryInv'
    BY <1>0, <1>4 DEF Complete, WorkerTypes, ReadInv, HistoryInv
  <2>3. Results /\ wf' # "activating"
    BY <1>0, <1>4 DEF Complete, AnswerInv
  <2> QED  BY <1>4, <2>1, <2>2, <2>3, FlowChanged DEF Complete
<1>5. CASE ReadState(w)
  <2>1. obs' = [approved |-> approved, status |-> status]
    BY <1>5 DEF ReadState
  <2>2. IsRead(obs)'
    <3>1. [approved |-> approved, status |-> status]
              \in [approved : BOOLEAN, status : Status]
      BY <1>0 DEF RowTypes
    <3> QED  BY <2>1, <3>1 DEF IsRead
  <2>3. FlowTypes'
    BY <1>0, <1>5, <2>2 DEF ReadState, FlowTypes
  <2>4. WorkerTypes' /\ HistoryInv'
    BY <1>0, <1>5 DEF ReadState, WorkerTypes, HistoryInv
  <2>5. ReadInv'
    BY <1>5, <2>1 DEF ReadState, ReadInv
  <2>6. Results /\ (wf' = "activating" => approved)
    BY <1>0, <1>5 DEF ReadState, AnswerInv
  <2> QED  BY <1>5, <2>3, <2>4, <2>5, <2>6, FlowChanged DEF ReadState
<1>6. CASE TaskRejected(w)
  <2>1. FlowTypes'
    BY <1>0, <1>6 DEF TaskRejected, FlowTypes, IsRead
  <2>2. ReadInv' /\ HistoryInv'
    BY <1>0, <1>6 DEF TaskRejected, ReadInv, HistoryInv
  <2>3. WorkerTypes'
    BY <1>0, <1>6 DEF TaskRejected, WorkerTypes
  <2>4. Results /\ (wf' = "activating" => approved)
    BY <1>0, <1>6 DEF TaskRejected, AnswerInv
  <2> QED  BY <1>6, <2>1, <2>2, <2>3, <2>4, FlowChanged DEF TaskRejected
<1> QED  BY <1>1, <1>2, <1>3, <1>4, <1>5, <1>6

\* The server's timers, which run whether there are workers or not.
LEMMA ServerPreserves ==
  ASSUME IInv, TimerElapsed \/ Retry
  PROVE  IInv'
<1>0. FlowTypes /\ WorkerTypes /\ ReadInv /\ AnswerInv /\ HistoryInv
  BY DEF IInv
<1> DEFINE Results == /\ ret' # None => ret' = status /\ status \in Final
                      /\ result' # None => result' = status /\ status \in Final
<1>1. CASE TimerElapsed
  <2>1. FlowTypes'
    BY <1>0, <1>1 DEF TimerElapsed, FlowTypes, IsRead
  <2>2. WorkerTypes' /\ ReadInv' /\ HistoryInv'
    BY <1>0, <1>1 DEF TimerElapsed, WorkerTypes, ReadInv, HistoryInv
  <2>3. Results /\ wf' # "activating"
    BY <1>0, <1>1 DEF TimerElapsed, AnswerInv
  <2> QED  BY <1>1, <2>1, <2>2, <2>3, FlowChanged DEF TimerElapsed
<1>2. CASE Retry
  <2>1. tries' \in 0 .. MaxAttempts /\ wf' \in {wf, "failed"}
    <3>1. (tries' = tries + 1 /\ tries < MaxAttempts) \/ UNCHANGED tries
      BY <1>2 DEF Retry, AttemptsLeft
    <3>2. wf' \in {wf, "failed"}
      BY <1>2 DEF Retry
    <3>3. tries \in 0 .. MaxAttempts
      BY <1>0 DEF FlowTypes
    <3> QED  BY <3>1, <3>2, <3>3
  <2>2. FlowTypes'
    BY <1>0, <1>2, <2>1 DEF Retry, FlowTypes, IsRead
  <2>3. WorkerTypes' /\ ReadInv' /\ HistoryInv'
    BY <1>0, <1>2, <2>1 DEF Retry, WorkerTypes, ReadInv, HistoryInv
  <2>4. Results /\ (wf' = "activating" => approved)
    BY <1>0, <1>2, <2>1 DEF Retry, AnswerInv
  <2> QED  BY <1>2, <2>2, <2>3, <2>4, FlowChanged DEF Retry
<1> QED  BY <1>1, <1>2

-----------------------------------------------------------------------------
LEMMA AttemptPreserves ==
  ASSUME IInv, NEW k \in Attempt, AttemptStep(k) \/ FailAttempt(k)
  PROVE  IInv'
<1>0. RowTypes /\ AttemptTypes /\ LockInv /\ DecisionInv /\ ReceiptInv /\ AnswerInv
  BY DEF IInv
<1>1. IsAttempt(att[k]) /\ DOMAIN att = Attempt
  BY <1>0 DEF AttemptTypes
<1>2. att[k].at = "locked" <=> lock = k
  BY <1>0 DEF LockInv
<1>3. ASSUME NEW w \in Worker, StartAttempt(k, w) PROVE IInv'
  <2> DEFINE s == [att[k] EXCEPT !.at = "begun", !.on = w]
  <2>1. IsAttempt(s) /\ s.at = "begun"
    BY <1>1 DEF IsAttempt, At, Status
  <2>2. att' = [att EXCEPT ![k] = s]
    BY <1>1, <1>3 DEF StartAttempt
  <2>3. approved /\ lock # k
    BY <1>0, <1>2, <1>3 DEF StartAttempt, AnswerInv
  <2>4. RowTypes' /\ ReceiptInv'
    BY <1>0, <1>3 DEF StartAttempt, RowTypes, ReceiptInv
  <2> HIDE DEF s
  <2> QED  BY <1>3, <2>1, <2>2, <2>3, <2>4, AttemptChanged DEF StartAttempt
<1>4. CASE LockRow(k)
  <2> DEFINE go == "activate" \notin receipts /\ Decision = "activate"
             s == [att[k] EXCEPT !.at = "locked", !.go = go]
  <2>1. go \in BOOLEAN
    OBVIOUS
  <2>2. approved
    BY <1>0, <1>4 DEF LockRow, AnswerInv
  <2>3. IF go THEN status = "waiting" /\ "activate" \notin receipts ELSE status \in Final
    BY <1>0, <2>2 DEF Decision, RowTypes, Status, ReceiptInv
  <2>4. att' = [att EXCEPT ![k] = s]
    BY <1>1, <1>4 DEF LockRow
  <2> HIDE DEF go
  <2>5. IsAttempt(s) /\ s.at = "locked" /\ s.go = go
    BY <1>1, <2>1 DEF IsAttempt, At, Status
  <2>6. RowTypes' /\ ReceiptInv'
    BY <1>0, <1>4 DEF LockRow, RowLock, RowTypes, ReceiptInv
  <2> HIDE DEF s
  <2> QED  BY <1>4, <2>2, <2>3, <2>4, <2>5, <2>6, AttemptChanged
           DEF LockRow, RowLock
<1>5. CASE CommitAttempt(k)
  <2> DEFINE s == [att[k] EXCEPT !.at = "committed"]
  <2>1. IsAttempt(s) /\ s.at = "committed"
    BY <1>1 DEF IsAttempt, At
  <2>2. att' = [att EXCEPT ![k] = s]
    BY <1>1, <1>5 DEF CommitAttempt
  <2>3. lock = k /\ lock' = Free /\ approved
    BY <1>0, <1>2, <1>5 DEF CommitAttempt, Unlocked, AnswerInv
  <2>4. /\ status' \in Final /\ (status \in Final => status' = status)
        /\ ReceiptInv' /\ effects' \in {effects, effects + 1}
        /\ receipts' \subseteq {"approval", "activate"}
    <3>1. CASE att[k].go
      BY <1>0, <1>5, <3>1 DEF CommitAttempt, DecisionInv, ReceiptInv, RowTypes
    <3>2. CASE ~att[k].go
      BY <1>0, <1>5, <3>2 DEF CommitAttempt, DecisionInv, ReceiptInv, RowTypes
    <3> QED  BY <3>1, <3>2
  <2>5. RowTypes'
    <3>1. effects' \in Nat
      BY <1>0, <2>4 DEF RowTypes
    <3> QED  BY <1>0, <1>5, <2>3, <2>4, <3>1 DEF CommitAttempt, RowTypes, Status
  <2> HIDE DEF s
  <2> QED  BY <1>5, <2>1, <2>2, <2>3, <2>4, <2>5, AttemptChanged DEF CommitAttempt
<1>6. CASE AnswerAttempt(k)
  <2> DEFINE s == [att[k] EXCEPT !.at = "answered", !.ans = status]
  <2>1. IsAttempt(s) /\ s.at = "answered" /\ s.ans = status
    BY <1>0, <1>1 DEF IsAttempt, At, Status, RowTypes
  <2>2. att' = [att EXCEPT ![k] = s]
    BY <1>1, <1>6 DEF AnswerAttempt, Answer
  <2>3. lock # k /\ approved /\ status \in Final
    BY <1>0, <1>2, <1>6 DEF AnswerAttempt, AnswerInv
  <2>4. RowTypes' /\ ReceiptInv'
    BY <1>0, <1>6 DEF AnswerAttempt, RowTypes, ReceiptInv
  <2> HIDE DEF s
  <2> QED  BY <1>6, <2>1, <2>2, <2>3, <2>4, AttemptChanged DEF AnswerAttempt
<1>7. CASE FailAttempt(k)
  <2> DEFINE s == [att[k] EXCEPT !.at = "failed"]
  <2>1. IsAttempt(s) /\ s.at = "failed"
    BY <1>1 DEF IsAttempt, At
  <2>2. att' = [att EXCEPT ![k] = s]
    BY <1>1, <1>7 DEF FailAttempt
  <2>3. approved
    BY <1>0, <1>7 DEF FailAttempt, AnswerInv
  <2>4. RowTypes' /\ ReceiptInv'
    BY <1>0, <1>7 DEF FailAttempt, RolledBack, Unlocked, RowTypes, ReceiptInv
  <2> HIDE DEF s
  <2> QED  BY <1>7, <2>1, <2>2, <2>3, <2>4, AttemptChanged
           DEF FailAttempt, RolledBack, Unlocked
<1>8. CASE ReportAttempt(k)
  <2> DEFINE s == [att[k] EXCEPT !.at = "reported"]
  <2>1. IsAttempt(s) /\ s.at = "reported"
    BY <1>1 DEF IsAttempt, At
  <2>2. att' = [att EXCEPT ![k] = s]
    BY <1>1, <1>8 DEF ReportAttempt
  <2>3. lock # k /\ approved /\ status \in Final /\ att[k].ans = status
    BY <1>0, <1>2, <1>8 DEF ReportAttempt, AnswerInv
  <2>4. ret' \in {ret, status}
    BY <1>8, <2>3 DEF ReportAttempt
  <2>5. RowTypes' /\ ReceiptInv'
    BY <1>0, <1>8 DEF ReportAttempt, RowTypes, ReceiptInv
  <2> HIDE DEF s
  <2> QED  BY <1>8, <2>1, <2>2, <2>3, <2>4, <2>5, AttemptChanged DEF ReportAttempt
<1> QED  BY <1>3, <1>4, <1>5, <1>6, <1>7, <1>8 DEF AttemptStep

\* A worker that is stopped fails its attempts and frees the row it had locked.
LEMMA StopPreserves ==
  ASSUME IInv, NEW w \in Worker, Stop(w), kills' \in 0 .. MaxKills
  PROVE  IInv'
<1>0. RowTypes /\ FlowTypes /\ AttemptTypes /\ WorkerTypes /\ LockInv
  BY DEF IInv
<1>1. \A k \in Attempt :
          att'[k] = IF k \in Running(w) THEN [att[k] EXCEPT !.at = "failed"] ELSE att[k]
  BY DEF Stop
<1>2. ASSUME NEW k \in Attempt
      PROVE  IF k \in Running(w)
             THEN IsAttempt(att'[k]) /\ att'[k].at = "failed" /\ att[k].at # "none"
             ELSE att'[k] = att[k]
  BY <1>0, <1>1 DEF Running, AttemptTypes, IsAttempt, At
<1>3. lock' = IF lock \in Running(w) THEN Free ELSE lock
  BY DEF Stop
<1>4. \A k \in Attempt : att[k].at = "locked" <=> lock = k
  BY <1>0 DEF LockInv
<1>5. \A k \in Running(w) : k \in Attempt
  BY DEF Running
<1>6. RowTypes'
  BY <1>0, <1>3 DEF Stop, RowTypes
<1>7. AttemptTypes'
  BY <1>0, <1>2 DEF Stop, AttemptTypes
<1>8. FlowTypes' /\ ReadInv' /\ HistoryInv' /\ ReceiptInv'
  BY <1>0 DEF Stop, IInv, FlowTypes, IsRead, ReadInv, HistoryInv, ReceiptInv
<1>9. WorkerTypes'
  <2>1. ver' \in [Worker -> {"v1", "incompatible", "v2", "down"}]
    BY <1>0 DEF Stop, WorkerTypes
  <2> QED  BY <1>0, <2>1 DEF Stop, WorkerTypes
<1>10. LockInv'
  <2>1. ASSUME NEW k \in Attempt PROVE att'[k].at = "locked" <=> lock' = k
    <3>1. CASE k \in Running(w)   BY <1>2, <1>3, <3>1
    <3>2. CASE k \notin Running(w)
      <4>1. att'[k] = att[k]  BY <1>2, <3>2
      <4>2. lock = k <=> lock' = k   BY <1>3, <3>2
      <4> QED  BY <1>4, <4>1, <4>2
    <3> QED  BY <3>1, <3>2
  <2>2. appr' = "open" <=> lock' = Approver
    BY <1>0, <1>3, <1>5 DEF Stop, LockInv
  <2> QED  BY <2>1, <2>2 DEF LockInv
<1>11. DecisionInv'
  <2> SUFFICES ASSUME NEW k \in Attempt, att'[k].at = "locked"
               PROVE  IF att'[k].go THEN /\ approved /\ status = "waiting"
                                         /\ "activate" \notin receipts
                                    ELSE status \in Final
    BY DEF DecisionInv, Stop
  <2> QED  BY <1>2 DEF IInv, DecisionInv
<1>12. AnswerInv'
  <2>1. ASSUME NEW k \in Attempt
        PROVE  /\ att'[k].at # "none" => approved
               /\ att'[k].at \in {"committed", "answered", "reported"} => status \in Final
               /\ att'[k].at = "answered" => att'[k].ans = status
    BY <1>2 DEF IInv, AnswerInv
  <2> QED  BY <2>1 DEF Stop, IInv, AnswerInv
<1> QED  BY <1>6, <1>7, <1>8, <1>9, <1>10, <1>11, <1>12 DEF IInv

LEMMA WorkersPreserve ==
  ASSUME IInv, NEW w \in Worker, Kill(w) \/ Retire(w) \/ StartWorker(w)
  PROVE  IInv'
<1>0. FlowTypes /\ WorkerTypes /\ ReadInv /\ HistoryInv
  BY DEF IInv
<1>1. CASE Kill(w)
  <2>1. kills' \in 0 .. MaxKills
    BY <1>0, <1>1 DEF Kill, WorkerTypes
  <2> QED  BY <1>1, <2>1, StopPreserves DEF Kill
<1>2. CASE Retire(w)
  BY <1>0, <1>2, StopPreserves DEF Retire, WorkerTypes
<1>3. CASE StartWorker(w)
  <2>1. PICK n \in released .. Len(Version) :
            released' = n /\ ver' = [ver EXCEPT ![w] = Version[n]]
    BY <1>3 DEF StartWorker
  <2>2. Len(Version) = 3 /\ released \in 1 .. 3
    BY <1>0 DEF Version, WorkerTypes
  <2>3. n \in 1 .. 3
    BY <2>1, <2>2
  <2>4. Version[n] \in {"v1", "incompatible", "v2"}
    BY <2>3 DEF Version
  <2>5. ver' \in [Worker -> {"v1", "incompatible", "v2", "down"}]
    BY <1>0, <2>1, <2>4 DEF WorkerTypes
  <2>6. WorkerTypes'
    BY <1>0, <1>3, <2>1, <2>3, <2>5 DEF StartWorker, WorkerTypes
  <2>7. FlowTypes' /\ ReadInv' /\ HistoryInv'
    BY <1>0, <1>3 DEF StartWorker, FlowTypes, IsRead, ReadInv, HistoryInv
  <2> QED  BY <1>3, <2>6, <2>7, FlowChanged DEF StartWorker, IInv, AnswerInv
<1> QED  BY <1>1, <1>2, <1>3

LEMMA NextPreserves == IInv /\ [Next]_vars => IInv'
<1> SUFFICES ASSUME IInv, [Next]_vars PROVE IInv'
  OBVIOUS
<1>1. CASE UNCHANGED vars
  BY <1>1 DEF vars, IInv, RowTypes, FlowTypes, AttemptTypes, WorkerTypes, LockInv,
              DecisionInv, ReceiptInv, ReadInv, AnswerInv, HistoryInv, IsRead
<1>2. ASSUME NEW w \in Worker,
             \/ Advance(w) \/ ReadReturned(w) \/ Wake(w) \/ Complete(w)
             \/ ReadState(w) \/ TaskRejected(w)
             \/ Kill(w) \/ Retire(w) \/ StartWorker(w)
      PROVE  IInv'
  BY <1>2, WorkflowPreserves, WorkersPreserve
<1>3. CASE \E w \in Worker : Kill(w) \/ Retire(w) \/ StartWorker(w)
  BY <1>2, <1>3
<1>4. CASE WorkflowStep \/ \E w \in Worker : ReadState(w) \/ TaskRejected(w)
  BY <1>2, <1>4 DEF WorkflowStep
<1>5. CASE \E k \in Attempt : AttemptStep(k) \/ FailAttempt(k)
  BY <1>5, AttemptPreserves
<1> QED  BY <1>1, <1>3, <1>4, <1>5, DriverPreserves, ServerPreserves DEF Next

LEMMA Invariant == Spec => []IInv
  BY InitEstablishes, NextPreserves, PTL DEF Spec

-----------------------------------------------------------------------------
\* The history holds commands only, an attempt is one of at most MaxAttempts
\* and no variable leaves its type, for every number of workers and faults:
\* what TLC checks for two workers (workflow-common.ts:5-24).
THEOREM TemporalTypeCorrect == Spec => []TypeOK
<1>1. ASSUME IInv PROVE TypeOK
  <2>1. RowTypes /\ FlowTypes /\ AttemptTypes /\ WorkerTypes
    BY <1>1 DEF IInv
  <2>2. obs \in [approved : BOOLEAN, status : Status] \union {NoRead}
    BY <2>1 DEF FlowTypes, IsRead
  <2>3. att \in [Attempt -> [at : At, on : Worker \union {None}, go : BOOLEAN,
                             ans : Status \union {None}]]
    BY <2>1 DEF AttemptTypes, IsAttempt
  <2> QED  BY <2>1, <2>2, <2>3 DEF TypeOK, RowTypes, FlowTypes, WorkerTypes, Command
<1> QED  BY <1>1, Invariant, PTL

\* The workflow returns what became of the run and not a status it passed
\* through, whichever attempt reported and however late (workflow-common.ts:11-24).
THEOREM TemporalResultTruthful == Spec => []ResultTruthful
<1>1. IInv => ResultTruthful
  BY DEF IInv, AnswerInv, ResultTruthful
<1> QED  BY <1>1, Invariant, PTL

\* A step that leaves the row alone is none of the contract's.
LEMMA RowStutters ==
  ASSUME UNCHANGED <<approved, status, effects>>
  PROVE  [Contract!Next]_Contract!runVars
  BY DEF Contract!runVars

LEMMA StepImplements ==
  ASSUME IInv, [Next]_vars
  PROVE  [Contract!Next]_Contract!runVars
<1> USE DEF Contract!runVars, Contract!Next
<1>1. CASE ApproveCommit
  BY <1>1 DEF ApproveCommit, Contract!Approve
<1>2. CASE Cancel
  BY <1>2 DEF Cancel, Contract!Cancel
<1>3. ASSUME NEW k \in Attempt, CommitAttempt(k)
      PROVE  [Contract!Next]_Contract!runVars
  <2>1. CASE att[k].go
    <3>1. approved /\ status = "waiting"
      BY <1>3, <2>1 DEF CommitAttempt, IInv, DecisionInv
    <3>2. UNCHANGED approved /\ status' = "active" /\ effects' = effects + 1
      BY <1>3, <2>1 DEF CommitAttempt
    <3> QED  BY <3>1, <3>2 DEF Contract!Activate
  <2>2. CASE ~att[k].go
    BY <1>3, <2>2, RowStutters DEF CommitAttempt
  <2> QED  BY <2>1, <2>2
<1>4. ASSUME NEW k \in Attempt, NEW w \in Worker, StartAttempt(k, w)
      PROVE  [Contract!Next]_Contract!runVars
  BY <1>4, RowStutters DEF StartAttempt
<1>5. ASSUME NEW k \in Attempt,
             LockRow(k) \/ AnswerAttempt(k) \/ ReportAttempt(k) \/ FailAttempt(k)
      PROVE  [Contract!Next]_Contract!runVars
  BY <1>5, RowStutters DEF LockRow, AnswerAttempt, ReportAttempt, FailAttempt
<1>6. ASSUME NEW w \in Worker,
             \/ Advance(w) \/ ReadReturned(w) \/ Wake(w) \/ Complete(w)
             \/ ReadState(w) \/ TaskRejected(w)
             \/ Kill(w) \/ Retire(w) \/ StartWorker(w)
      PROVE  [Contract!Next]_Contract!runVars
  BY <1>6, RowStutters DEF Advance, ReadReturned, Wake, Complete, ReadState,
     TaskRejected, Kill, Retire, StartWorker, Stop
<1>7. CASE \/ ApproveBegin \/ ApproveLost \/ Signal \/ NoSignal \/ EngineCancel
           \/ TimerElapsed \/ Retry \/ UNCHANGED vars
  BY <1>7, RowStutters DEF ApproveBegin, ApproveLost, Signal, NoSignal,
     EngineCancel, TimerElapsed, Retry, vars
<1>8. CASE \E w \in Worker : Kill(w) \/ Retire(w) \/ StartWorker(w)
  BY <1>6, <1>8
<1>9. CASE WorkflowStep \/ \E w \in Worker : ReadState(w) \/ TaskRejected(w)
  BY <1>6, <1>9 DEF WorkflowStep
<1>10. CASE \E k \in Attempt : AttemptStep(k) \/ FailAttempt(k)
  BY <1>3, <1>4, <1>5, <1>10 DEF AttemptStep
<1> QED  BY <1>1, <1>2, <1>7, <1>8, <1>9, <1>10 DEF Next

\* One effect, after an approval and never after the cancellation, although an
\* attempt the server gave up goes on running next to its successor: the row
\* lock and the receipt decide (business.ts:41-60).
THEOREM TemporalImplementsContract == Spec => ImplementsContract
<1>1. Init => Contract!Init
  BY DEF Init, Contract!Init
<1>2. IInv /\ [Next]_vars => [Contract!Next]_Contract!runVars
  BY StepImplements
<1> QED  BY <1>1, <1>2, Invariant, PTL DEF Spec, ImplementsContract, Contract!Spec

\* The run has one effect exactly when it is active, which takes an approval, and
\* what became of it is final: whatever implements the contract keeps it.
THEOREM ContractKept ==
  ImplementsContract => []Contract!OneEffect /\ Contract!Settled
<1> USE DEF Contract!runVars
<1>1. Contract!Init => Contract!OneEffect
  BY DEF Contract!Init, Contract!OneEffect
<1>2. Contract!OneEffect /\ [Contract!Next]_Contract!runVars => Contract!OneEffect'
  BY DEF Contract!OneEffect, Contract!Next, Contract!Approve, Contract!Cancel,
     Contract!Activate
<1>3. [Contract!Next]_Contract!runVars => [Contract!KeepsSettled]_Contract!runVars
  BY DEF Contract!KeepsSettled, Contract!Next, Contract!Approve, Contract!Cancel,
     Contract!Activate
<1> QED  BY <1>1, <1>2, <1>3, PTL
         DEF ImplementsContract, Contract!Spec, Contract!Settled

\* The durable workflow activates its run at most once, never after a
\* cancellation, and nothing it replays changes a run that is settled
\* (temporal/business.ts:41-60).
THEOREM TemporalActivatesOnce == Spec => []Contract!OneEffect /\ Contract!Settled
<1> QED  BY TemporalImplementsContract, ContractKept, PTL

=============================================================================
