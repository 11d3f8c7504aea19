------------------------- MODULE ManifestStoreProofs -------------------------
(***************************************************************************)
(* The safety properties of ManifestStore, for every set of calls, names   *)
(* and facts and every pool size.                                          *)
(***************************************************************************)
EXTENDS ManifestStore, TLAPS

-----------------------------------------------------------------------------
(* The inductive invariant                                                 *)

\* Where a call stands says how far its transaction can be.
PhaseInv ==
    \A c \in Call :
      /\ pc[c] \in {"idle", "connect", "begin"} => tx[c] = "none"
      /\ pc[c] \in (Querying \ {"begin"}) \union {"commit"} =>
           tx[c] \in {"open", "aborted"}
      /\ pc[c] = "committing" => tx[c] \in {"committing", "committed", "aborted"}
      /\ pc[c] = "rollback" => tx[c] \in {"none", "open", "aborted"}
      /\ pc[c] = "rollback" => failure[c] \in Error
      /\ pc[c] \in {"insert", "verify", "emit"} => Seeding(c)
      /\ pc[c] = "select" => ~Seeding(c)
      /\ reply[c] # "none" => pc[c] = "done"

\* Who has the client, and in what state.
CustodyInv ==
    \A c \in Call :
      /\ pc[c] \in Awaiting <=> custody[c] = "caller"
      /\ custody[c] \in {"caller", "stranded"} => guarded[c]
      /\ custody[c] = "pooled" => tx[c] \in {"committed", "aborted"}

\* Uncommitted writes: only a running seed of a free name has any, never two
\* calls for one name, and a row reaches COMMIT only with its event.
StagingInv ==
    \A c \in Call :
      /\ staged[c] # {} =>
           /\ tx[c] \in {"open", "committing"}
           /\ Seeding(c)
           /\ RowOf(c) = NoRow
           /\ "row" \in staged[c]
           /\ reply[c] \in {"none", "UNAVAILABLE"}
           /\ \A d \in Call : staged[d] # {} /\ req[d].name = req[c].name => d = c
      /\ pc[c] \in {"idle", "connect", "begin", "scope", "insert"} => staged[c] = {}
      /\ pc[c] = "emit" => "row" \in staged[c] \/ tx[c] = "aborted"
      /\ "row" \in staged[c] /\ (pc[c] = "commit" \/ tx[c] = "committing") =>
           "event" \in staged[c]

\* What a seed may conclude from where it stands.
VerdictInv ==
    \A c \in Call : Seeding(c) =>
      /\ pc[c] = "verify" /\ tx[c] = "open" =>
           "row" \in staged[c] \/ RowOf(c) # NoRow
      /\ pc[c] = "emit" => req[c].facts \notin OutOfRange
      /\ pc[c] \in {"commit", "committing"} /\ tx[c] # "aborted" =>
           "row" \in staged[c] \/ RowOf(c) = req[c].facts
      /\ pc[c] = "rollback" /\ failure[c] = "CONFLICT" =>
           RowOf(c) \notin {NoRow, req[c].facts}
      /\ pc[c] = "rollback" /\ failure[c] = "INVALID_ARGUMENT" =>
           req[c].facts \in OutOfRange
      /\ staged[c] # {} => req[c].facts \notin OutOfRange
      /\ seen[c] = Unread

\* What a read may conclude from its snapshot.
SnapshotInv ==
    \A c \in Call :
      /\ seen[c] \notin {Unread, NoRow} => seen[c] = RowOf(c)
      /\ existed[c] => RowOf(c) # NoRow /\ seen[c] # NoRow
      /\ ~Seeding(c) =>
           /\ staged[c] = {}
           /\ pc[c] \in {"idle", "connect", "begin", "scope"} => seen[c] = Unread
           /\ pc[c] \in {"commit", "committing"} => seen[c] \in Facts \union {NoRow}
           /\ pc[c] = "select" => seen[c] # Unread
           /\ pc[c] = "rollback" /\ failure[c] = "INVALID_ARGUMENT" =>
                seen[c] = Damaged
           /\ pc[c] = "rollback" => failure[c] # "CONFLICT"

\* The durable tables agree, and only committed transactions are in them.
DurableInv ==
    /\ OneEventPerManifest
    /\ \A c \in outbox : staged[c] = {} /\ tx[c] = "committed"
    /\ \A c \in outbox : reply[c] \in {"none", "OK", "UNAVAILABLE"}

\* Answers already given.
AnswerInv ==
    \A c \in Call :
      /\ reply[c] \notin {"none", "UNAVAILABLE"} =>
           tx[c] \in {"committed", "aborted"}
      /\ Seeding(c) => reply[c] # "ABSENT"
      /\ ~Seeding(c) => reply[c] # "CONFLICT"
      /\ reply[c] = "ABSENT" => seen[c] = NoRow
      /\ ~Seeding(c) /\ reply[c] = "OK" => seen[c] \in Facts
      /\ ~Seeding(c) /\ reply[c] = "INVALID_ARGUMENT" => seen[c] = Damaged
      /\ Seeding(c) /\ reply[c] = "INVALID_ARGUMENT" => req[c].facts \in OutOfRange
      /\ Seeding(c) /\ reply[c] = "OK" => RowOf(c) = req[c].facts
      /\ reply[c] = "CONFLICT" => RowOf(c) \notin {NoRow, req[c].facts}

IInv ==
    /\ TypeOK
    /\ PhaseInv
    /\ CustodyInv
    /\ StagingInv
    /\ VerdictInv
    /\ SnapshotInv
    /\ DurableInv
    /\ AnswerInv

-----------------------------------------------------------------------------
(* Type correctness                                                        *)

LEMMA InitTypeOK == Init => TypeOK
  BY DEF Init, TypeOK, Location, Reply, Row, Error

LEMMA ReleaseType ==
  ASSUME TypeOK, NEW c \in Call, NEW outcome \in Reply, NEW unhealthy \in BOOLEAN,
         Release(c, outcome, unhealthy)
  PROVE  /\ pc' \in [Call -> Location]
         /\ broken' \in [Call -> BOOLEAN]
         /\ guarded' \in [Call -> BOOLEAN]
         /\ custody' \in [Call -> {"none", "caller", "pooled", "destroyed", "stranded"}]
         /\ failure' \in [Call -> Error \union {"none"}]
         /\ reply' \in [Call -> Reply]
  <1>1. pc' \in [Call -> Location]
    BY DEF Release, Goto, TypeOK, Location
  <1>2. broken' \in [Call -> BOOLEAN] /\ guarded' \in [Call -> BOOLEAN]
    BY DEF Release, TypeOK
  <1>3. custody' \in [Call -> {"none", "caller", "pooled", "destroyed", "stranded"}]
    BY DEF Release, TypeOK
  <1>4. failure' \in [Call -> Error \union {"none"}]
    BY DEF Release, TypeOK
  <1>5. reply' \in [Call -> Reply]
    BY DEF Release, TypeOK, Reply, Error
  <1>6. QED BY <1>1, <1>2, <1>3, <1>4, <1>5

\* The type invariant is preserved by every step of the store.
LEMMA NextTypeOK == StoreAssumption /\ TypeOK /\ [Next]_vars => TypeOK'
  <1> SUFFICES ASSUME StoreAssumption, TypeOK, [Next]_vars PROVE TypeOK'
    OBVIOUS
  <1> USE DEF TypeOK, Location, Awaiting, Querying, Reply, Error, Row,
              Goto, Raise, RowOf, Seeding, hostVars, serverVars
  <1>1. ASSUME NEW c \in Call, Start(c) \/ Connect(c) \/ ConnectFails(c)
        PROVE  TypeOK'
    BY <1>1 DEF Start, Connect, ConnectFails
  <1>2. ASSUME NEW c \in Call, Work(c) PROVE TypeOK'
    <2>1. CASE BeginTransaction(c)  BY <2>1 DEF BeginTransaction
    <2>2. CASE SetScope(c)          BY <2>2 DEF SetScope, Request
    <2>3. CASE RefuseInstant(c)     BY <2>3 DEF RefuseInstant
    <2>4. CASE InsertManifest(c)    BY <2>4 DEF InsertManifest
    <2>5. CASE VerifyFingerprint(c) BY <2>5 DEF VerifyFingerprint
    <2>6. CASE EmitCreated(c)       BY <2>6 DEF EmitCreated
    <2>7. CASE SelectManifest(c)    BY <2>7 DEF SelectManifest
    <2>8. CASE QueryFails(c)        BY <2>8 DEF QueryFails
    <2>9. QED BY <1>2, <2>1, <2>2, <2>3, <2>4, <2>5, <2>6, <2>7, <2>8 DEF Work
  <1>3. ASSUME NEW c \in Call, Settle(c) PROVE TypeOK'
    <2>1. CASE AbandonWork(c)        BY <2>1 DEF AbandonWork
    <2>2. CASE SubmitCommit(c)       BY <2>2 DEF SubmitCommit
    <2>3. CASE CommitAcknowledged(c)
      <3>1. Result(c) \in Reply BY DEF Result
      <3>2. QED BY <2>3, <3>1, ReleaseType DEF CommitAcknowledged
    <2>4. CASE CommitUnanswered(c)
      BY <2>4, ReleaseType DEF CommitUnanswered
    <2>5. CASE RollBack(c)
      <3>1. failure[c] \in Reply BY DEF TypeOK
      <3>2. QED BY <2>5, <3>1, ReleaseType DEF RollBack
    <2>6. CASE RollBackFails(c)
      BY <2>6, ReleaseType DEF RollBackFails
    <2>7. QED BY <1>3, <2>1, <2>2, <2>3, <2>4, <2>5, <2>6 DEF Settle
  <1>4. ASSUME NEW c \in Call,
               ServerCommit(c) \/ ServerAbort(c) \/ SocketError(c)
        PROVE  TypeOK'
    <2>1. CASE ServerCommit(c) BY <2>1 DEF ServerCommit, Request
    <2>2. CASE ServerAbort(c)  BY <2>2 DEF ServerAbort
    <2>3. CASE SocketError(c)  BY <2>3 DEF SocketError
    <2>4. QED BY <1>4, <2>1, <2>2, <2>3
  <1>5. CASE HostCrash BY <1>5 DEF HostCrash
  <1>6. CASE Quiescent \/ UNCHANGED vars BY <1>6 DEF Quiescent, vars
  <1>7. QED BY <1>1, <1>2, <1>3, <1>4, <1>5, <1>6 DEF Next

\* Every variable of the manifest store keeps its type, in every reachable
\* state of every instance.
THEOREM StoreTypeCorrect == Spec => []TypeOK
  <1>1. Init => TypeOK BY InitTypeOK
  <1>2. TypeOK /\ [Next]_vars => TypeOK' BY NextTypeOK, StoreAssumption
  <1>3. QED BY <1>1, <1>2, PTL DEF Spec

-----------------------------------------------------------------------------
(* Preservation of the invariant, conjunct by conjunct                     *)

\* No step changes or removes a committed row: a COMMIT writes only a name
\* that its transaction still holds, and such a name has no row yet.
LEMMA RowsKept ==
  ASSUME StoreAssumption, TypeOK, StagingInv, [Next]_vars, NEW n \in Name,
         rows[n] # NoRow
  PROVE  rows'[n] = rows[n]
  <1> USE DEF TypeOK, serverVars, hostVars
  <1>1. ASSUME NEW c \in Call, ServerCommit(c) PROVE rows'[n] = rows[n]
    <2>1. "row" \in staged[c] => req[c].name # n
      BY DEF StagingInv, RowOf
    <2>2. QED BY <1>1, <2>1 DEF ServerCommit
  <1>2. ASSUME NEW c \in Call, Start(c) \/ Connect(c) \/ ConnectFails(c) \/ Work(c)
        PROVE  rows' = rows
    BY <1>2 DEF Start, Connect, ConnectFails, Work, BeginTransaction, SetScope,
                RefuseInstant, InsertManifest, VerifyFingerprint, EmitCreated,
                SelectManifest, QueryFails
  <1>3. ASSUME NEW c \in Call, Settle(c) \/ ServerAbort(c) \/ SocketError(c)
        PROVE  rows' = rows
    BY <1>3 DEF Settle, AbandonWork, SubmitCommit, CommitAcknowledged,
                CommitUnanswered, RollBack, RollBackFails, ServerAbort, SocketError
  <1>4. HostCrash \/ Quiescent \/ UNCHANGED vars => rows' = rows
    BY DEF HostCrash, Quiescent, vars
  <1>5. QED BY <1>1, <1>2, <1>3, <1>4 DEF Next

\* The transaction of a call is never ahead of or behind its program counter.
LEMMA PhasePreserved ==
  ASSUME StoreAssumption, TypeOK, PhaseInv, [Next]_vars
  PROVE  PhaseInv'
  <1> USE StoreAssumption DEF TypeOK, PhaseInv, Seeding, RowOf, Error, Querying, Awaiting, Location, hostVars, serverVars, StoreAssumption
  <1>1. ASSUME NEW c \in Call, Start(c) PROVE PhaseInv'
    BY <1>1 DEF Start
  <1>2. ASSUME NEW c \in Call, Connect(c) PROVE PhaseInv'
    BY <1>2 DEF Connect
  <1>3. ASSUME NEW c \in Call, ConnectFails(c) PROVE PhaseInv'
    BY <1>3 DEF ConnectFails
  <1>4. ASSUME NEW c \in Call, BeginTransaction(c) PROVE PhaseInv'
    BY <1>4 DEF BeginTransaction, Goto
  <1>5. ASSUME NEW c \in Call, SetScope(c) PROVE PhaseInv'
    BY <1>5 DEF SetScope, Goto
  <1>6. ASSUME NEW c \in Call, RefuseInstant(c) PROVE PhaseInv'
    BY <1>6 DEF RefuseInstant, Raise, Goto
  <1>7. ASSUME NEW c \in Call, InsertManifest(c) PROVE PhaseInv'
    BY <1>7 DEF InsertManifest, Goto
  <1>8. ASSUME NEW c \in Call, VerifyFingerprint(c) PROVE PhaseInv'
    BY <1>8 DEF VerifyFingerprint, Raise, Goto, Visible
  <1>9. ASSUME NEW c \in Call, EmitCreated(c) PROVE PhaseInv'
    BY <1>9 DEF EmitCreated, Goto
  <1>10. ASSUME NEW c \in Call, SelectManifest(c) PROVE PhaseInv'
    BY <1>10 DEF SelectManifest, Raise, Goto
  <1>11. ASSUME NEW c \in Call, QueryFails(c) PROVE PhaseInv'
    BY <1>11 DEF QueryFails, Raise, Goto
  <1>12. ASSUME NEW c \in Call, AbandonWork(c) PROVE PhaseInv'
    BY <1>12 DEF AbandonWork, Raise, Goto
  <1>13. ASSUME NEW c \in Call, SubmitCommit(c) PROVE PhaseInv'
    BY <1>13 DEF SubmitCommit, Goto
  <1>14. ASSUME NEW c \in Call, CommitAcknowledged(c) PROVE PhaseInv'
    BY <1>14 DEF CommitAcknowledged, Release, Goto, Result
  <1>15. ASSUME NEW c \in Call, CommitUnanswered(c) PROVE PhaseInv'
    BY <1>15 DEF CommitUnanswered, Release, Goto
  <1>16. ASSUME NEW c \in Call, RollBack(c) PROVE PhaseInv'
    BY <1>16 DEF RollBack, Release, Goto
  <1>17. ASSUME NEW c \in Call, RollBackFails(c) PROVE PhaseInv'
    BY <1>17 DEF RollBackFails, Release, Goto
  <1>18. ASSUME NEW c \in Call, ServerCommit(c) PROVE PhaseInv'
    BY <1>18 DEF ServerCommit
  <1>19. ASSUME NEW c \in Call, ServerAbort(c) PROVE PhaseInv'
    BY <1>19 DEF ServerAbort
  <1>20. ASSUME NEW c \in Call, SocketError(c) PROVE PhaseInv'
    BY <1>20 DEF SocketError
  <1>21. CASE HostCrash BY <1>21 DEF HostCrash
  <1>22. CASE Quiescent \/ UNCHANGED vars BY <1>22 DEF Quiescent, vars
  <1>23. QED BY <1>1, <1>2, <1>3, <1>4, <1>5, <1>6, <1>7, <1>8, <1>9, <1>10, <1>11, <1>12, <1>13, <1>14, <1>15, <1>16, <1>17, <1>18, <1>19, <1>20, <1>21, <1>22 DEF Next, Work, Settle

\* A client is the caller's exactly while the call awaits something on it.
LEMMA CustodyPreserved ==
  ASSUME StoreAssumption, TypeOK, PhaseInv, CustodyInv, [Next]_vars
  PROVE  CustodyInv'
  <1> USE StoreAssumption DEF TypeOK, PhaseInv, CustodyInv, Seeding, RowOf, Error, Querying, Awaiting, Location, hostVars, serverVars, StoreAssumption
  <1>1. ASSUME NEW c \in Call, Start(c) PROVE CustodyInv'
    BY <1>1 DEF Start
  <1>2. ASSUME NEW c \in Call, Connect(c) PROVE CustodyInv'
    BY <1>2 DEF Connect
  <1>3. ASSUME NEW c \in Call, ConnectFails(c) PROVE CustodyInv'
    BY <1>3 DEF ConnectFails
  <1>4. ASSUME NEW c \in Call, BeginTransaction(c) PROVE CustodyInv'
    BY <1>4 DEF BeginTransaction, Goto
  <1>5. ASSUME NEW c \in Call, SetScope(c) PROVE CustodyInv'
    BY <1>5 DEF SetScope, Goto
  <1>6. ASSUME NEW c \in Call, RefuseInstant(c) PROVE CustodyInv'
    BY <1>6 DEF RefuseInstant, Raise, Goto
  <1>7. ASSUME NEW c \in Call, InsertManifest(c) PROVE CustodyInv'
    BY <1>7 DEF InsertManifest, Goto
  <1>8. ASSUME NEW c \in Call, VerifyFingerprint(c) PROVE CustodyInv'
    BY <1>8 DEF VerifyFingerprint, Raise, Goto, Visible
  <1>9. ASSUME NEW c \in Call, EmitCreated(c) PROVE CustodyInv'
    BY <1>9 DEF EmitCreated, Goto
  <1>10. ASSUME NEW c \in Call, SelectManifest(c) PROVE CustodyInv'
    BY <1>10 DEF SelectManifest, Raise, Goto
  <1>11. ASSUME NEW c \in Call, QueryFails(c) PROVE CustodyInv'
    BY <1>11 DEF QueryFails, Raise, Goto
  <1>12. ASSUME NEW c \in Call, AbandonWork(c) PROVE CustodyInv'
    BY <1>12 DEF AbandonWork, Raise, Goto
  <1>13. ASSUME NEW c \in Call, SubmitCommit(c) PROVE CustodyInv'
    BY <1>13 DEF SubmitCommit, Goto
  <1>14. ASSUME NEW c \in Call, CommitAcknowledged(c) PROVE CustodyInv'
    BY <1>14 DEF CommitAcknowledged, Release, Goto, Result
  <1>15. ASSUME NEW c \in Call, CommitUnanswered(c) PROVE CustodyInv'
    BY <1>15 DEF CommitUnanswered, Release, Goto
  <1>16. ASSUME NEW c \in Call, RollBack(c) PROVE CustodyInv'
    BY <1>16 DEF RollBack, Release, Goto
  <1>17. ASSUME NEW c \in Call, RollBackFails(c) PROVE CustodyInv'
    BY <1>17 DEF RollBackFails, Release, Goto
  <1>18. ASSUME NEW c \in Call, ServerCommit(c) PROVE CustodyInv'
    BY <1>18 DEF ServerCommit
  <1>19. ASSUME NEW c \in Call, ServerAbort(c) PROVE CustodyInv'
    BY <1>19 DEF ServerAbort
  <1>20. ASSUME NEW c \in Call, SocketError(c) PROVE CustodyInv'
    BY <1>20 DEF SocketError
  <1>21. CASE HostCrash BY <1>21 DEF HostCrash
  <1>22. CASE Quiescent \/ UNCHANGED vars BY <1>22 DEF Quiescent, vars
  <1>23. QED BY <1>1, <1>2, <1>3, <1>4, <1>5, <1>6, <1>7, <1>8, <1>9, <1>10, <1>11, <1>12, <1>13, <1>14, <1>15, <1>16, <1>17, <1>18, <1>19, <1>20, <1>21, <1>22 DEF Next, Work, Settle

\* The unique index admits one uncommitted writer per free name.
LEMMA StagingPreserved ==
  ASSUME StoreAssumption, TypeOK, PhaseInv, StagingInv, VerdictInv, SnapshotInv, [Next]_vars
  PROVE  StagingInv'
  <1> USE StoreAssumption DEF TypeOK, PhaseInv, StagingInv, VerdictInv, SnapshotInv, Seeding, RowOf, Error, Querying, Awaiting, Location, hostVars, serverVars, Holders, StoreAssumption
  <1>1. ASSUME NEW c \in Call, Start(c) PROVE StagingInv'
    BY <1>1 DEF Start
  <1>2. ASSUME NEW c \in Call, Connect(c) PROVE StagingInv'
    BY <1>2 DEF Connect
  <1>3. ASSUME NEW c \in Call, ConnectFails(c) PROVE StagingInv'
    BY <1>3 DEF ConnectFails
  <1>4. ASSUME NEW c \in Call, BeginTransaction(c) PROVE StagingInv'
    BY <1>4 DEF BeginTransaction, Goto
  <1>5. ASSUME NEW c \in Call, SetScope(c) PROVE StagingInv'
    BY <1>5 DEF SetScope, Goto
  <1>6. ASSUME NEW c \in Call, RefuseInstant(c) PROVE StagingInv'
    BY <1>6 DEF RefuseInstant, Raise, Goto
  <1>7. ASSUME NEW c \in Call, InsertManifest(c) PROVE StagingInv'
    BY <1>7 DEF InsertManifest, Goto
  <1>8. ASSUME NEW c \in Call, VerifyFingerprint(c) PROVE StagingInv'
    BY <1>8 DEF VerifyFingerprint, Raise, Goto, Visible
  <1>9. ASSUME NEW c \in Call, EmitCreated(c) PROVE StagingInv'
    BY <1>9 DEF EmitCreated, Goto
  <1>10. ASSUME NEW c \in Call, SelectManifest(c) PROVE StagingInv'
    BY <1>10 DEF SelectManifest, Raise, Goto
  <1>11. ASSUME NEW c \in Call, QueryFails(c) PROVE StagingInv'
    BY <1>11 DEF QueryFails, Raise, Goto
  <1>12. ASSUME NEW c \in Call, AbandonWork(c) PROVE StagingInv'
    BY <1>12 DEF AbandonWork, Raise, Goto
  <1>13. ASSUME NEW c \in Call, SubmitCommit(c) PROVE StagingInv'
    BY <1>13 DEF SubmitCommit, Goto
  <1>14. ASSUME NEW c \in Call, CommitAcknowledged(c) PROVE StagingInv'
    BY <1>14 DEF CommitAcknowledged, Release, Goto, Result
  <1>15. ASSUME NEW c \in Call, CommitUnanswered(c) PROVE StagingInv'
    BY <1>15 DEF CommitUnanswered, Release, Goto
  <1>16. ASSUME NEW c \in Call, RollBack(c) PROVE StagingInv'
    BY <1>16 DEF RollBack, Release, Goto
  <1>17. ASSUME NEW c \in Call, RollBackFails(c) PROVE StagingInv'
    BY <1>17 DEF RollBackFails, Release, Goto
  <1>18. ASSUME NEW c \in Call, ServerCommit(c) PROVE StagingInv'
    BY <1>18 DEF ServerCommit
  <1>19. ASSUME NEW c \in Call, ServerAbort(c) PROVE StagingInv'
    BY <1>19 DEF ServerAbort
  <1>20. ASSUME NEW c \in Call, SocketError(c) PROVE StagingInv'
    BY <1>20 DEF SocketError
  <1>21. CASE HostCrash BY <1>21 DEF HostCrash
  <1>22. CASE Quiescent \/ UNCHANGED vars BY <1>22 DEF Quiescent, vars
  <1>23. QED BY <1>1, <1>2, <1>3, <1>4, <1>5, <1>6, <1>7, <1>8, <1>9, <1>10, <1>11, <1>12, <1>13, <1>14, <1>15, <1>16, <1>17, <1>18, <1>19, <1>20, <1>21, <1>22 DEF Next, Work, Settle

\* A seed concludes from committed rows or from its own write only.
LEMMA VerdictPreserved ==
  ASSUME StoreAssumption, TypeOK, PhaseInv, StagingInv, VerdictInv, SnapshotInv, [Next]_vars
  PROVE  VerdictInv'
  <1> USE StoreAssumption DEF TypeOK, PhaseInv, StagingInv, VerdictInv, SnapshotInv, Seeding, RowOf, Error, Querying, Awaiting, Location, hostVars, serverVars, Holders, StoreAssumption
  <1>1. ASSUME NEW c \in Call, Start(c) PROVE VerdictInv'
    BY <1>1 DEF Start
  <1>2. ASSUME NEW c \in Call, Connect(c) PROVE VerdictInv'
    BY <1>2 DEF Connect
  <1>3. ASSUME NEW c \in Call, ConnectFails(c) PROVE VerdictInv'
    BY <1>3 DEF ConnectFails
  <1>4. ASSUME NEW c \in Call, BeginTransaction(c) PROVE VerdictInv'
    BY <1>4 DEF BeginTransaction, Goto
  <1>5. ASSUME NEW c \in Call, SetScope(c) PROVE VerdictInv'
    BY <1>5 DEF SetScope, Goto
  <1>6. ASSUME NEW c \in Call, RefuseInstant(c) PROVE VerdictInv'
    BY <1>6 DEF RefuseInstant, Raise, Goto
  <1>7. ASSUME NEW c \in Call, InsertManifest(c) PROVE VerdictInv'
    BY <1>7 DEF InsertManifest, Goto
  <1>8. ASSUME NEW c \in Call, VerifyFingerprint(c) PROVE VerdictInv'
    BY <1>8 DEF VerifyFingerprint, Raise, Goto, Visible
  <1>9. ASSUME NEW c \in Call, EmitCreated(c) PROVE VerdictInv'
    BY <1>9 DEF EmitCreated, Goto
  <1>10. ASSUME NEW c \in Call, SelectManifest(c) PROVE VerdictInv'
    BY <1>10 DEF SelectManifest, Raise, Goto
  <1>11. ASSUME NEW c \in Call, QueryFails(c) PROVE VerdictInv'
    BY <1>11 DEF QueryFails, Raise, Goto
  <1>12. ASSUME NEW c \in Call, AbandonWork(c) PROVE VerdictInv'
    BY <1>12 DEF AbandonWork, Raise, Goto
  <1>13. ASSUME NEW c \in Call, SubmitCommit(c) PROVE VerdictInv'
    BY <1>13 DEF SubmitCommit, Goto
  <1>14. ASSUME NEW c \in Call, CommitAcknowledged(c) PROVE VerdictInv'
    BY <1>14 DEF CommitAcknowledged, Release, Goto, Result
  <1>15. ASSUME NEW c \in Call, CommitUnanswered(c) PROVE VerdictInv'
    BY <1>15 DEF CommitUnanswered, Release, Goto
  <1>16. ASSUME NEW c \in Call, RollBack(c) PROVE VerdictInv'
    BY <1>16 DEF RollBack, Release, Goto
  <1>17. ASSUME NEW c \in Call, RollBackFails(c) PROVE VerdictInv'
    BY <1>17 DEF RollBackFails, Release, Goto
  <1>18. ASSUME NEW c \in Call, ServerCommit(c) PROVE VerdictInv'
    <2>1. req' = req /\ pc' = pc /\ failure' = failure /\ seen' = seen /\ reply' = reply
      BY <1>18 DEF ServerCommit
    <2>2. \A d \in Call : RowOf(d) # NoRow => RowOf(d)' = RowOf(d)
      BY <2>1, RowsKept DEF Request
    <2>3. \A d \in Call : d # c => staged'[d] = staged[d] /\ tx'[d] = tx[d]
      BY <1>18 DEF ServerCommit
    <2>4. staged'[c] = {} /\ tx'[c] = "committed" /\ tx[c] = "committing"
      BY <1>18 DEF ServerCommit
    <2>5. "row" \in staged[c] => RowOf(c)' = req[c].facts
      BY <1>18 DEF ServerCommit, Request
    <2>6. QED BY <2>1, <2>2, <2>3, <2>4, <2>5 DEF Request
  <1>19. ASSUME NEW c \in Call, ServerAbort(c) PROVE VerdictInv'
    BY <1>19 DEF ServerAbort
  <1>20. ASSUME NEW c \in Call, SocketError(c) PROVE VerdictInv'
    BY <1>20 DEF SocketError
  <1>21. CASE HostCrash BY <1>21 DEF HostCrash
  <1>22. CASE Quiescent \/ UNCHANGED vars BY <1>22 DEF Quiescent, vars
  <1>23. QED BY <1>1, <1>2, <1>3, <1>4, <1>5, <1>6, <1>7, <1>8, <1>9, <1>10, <1>11, <1>12, <1>13, <1>14, <1>15, <1>16, <1>17, <1>18, <1>19, <1>20, <1>21, <1>22 DEF Next, Work, Settle

\* A snapshot, once taken, stays true: the row it saw cannot change.
LEMMA SnapshotPreserved ==
  ASSUME StoreAssumption, TypeOK, PhaseInv, StagingInv, VerdictInv, SnapshotInv, [Next]_vars
  PROVE  SnapshotInv'
  <1> USE StoreAssumption DEF TypeOK, PhaseInv, StagingInv, VerdictInv, SnapshotInv, Seeding, RowOf, Error, Querying, Awaiting, Location, hostVars, serverVars, Row, StoreAssumption
  <1>1. ASSUME NEW c \in Call, Start(c) PROVE SnapshotInv'
    BY <1>1 DEF Start
  <1>2. ASSUME NEW c \in Call, Connect(c) PROVE SnapshotInv'
    BY <1>2 DEF Connect
  <1>3. ASSUME NEW c \in Call, ConnectFails(c) PROVE SnapshotInv'
    BY <1>3 DEF ConnectFails
  <1>4. ASSUME NEW c \in Call, BeginTransaction(c) PROVE SnapshotInv'
    BY <1>4 DEF BeginTransaction, Goto
  <1>5. ASSUME NEW c \in Call, SetScope(c) PROVE SnapshotInv'
    <2>1. CASE Seeding(c)  BY <1>5, <2>1 DEF SetScope, Goto
    <2>2. CASE ~Seeding(c) BY <1>5, <2>2 DEF SetScope, Goto, Request
    <2>3. QED BY <2>1, <2>2
  <1>6. ASSUME NEW c \in Call, RefuseInstant(c) PROVE SnapshotInv'
    BY <1>6 DEF RefuseInstant, Raise, Goto
  <1>7. ASSUME NEW c \in Call, InsertManifest(c) PROVE SnapshotInv'
    BY <1>7 DEF InsertManifest, Goto
  <1>8. ASSUME NEW c \in Call, VerifyFingerprint(c) PROVE SnapshotInv'
    BY <1>8 DEF VerifyFingerprint, Raise, Goto, Visible
  <1>9. ASSUME NEW c \in Call, EmitCreated(c) PROVE SnapshotInv'
    BY <1>9 DEF EmitCreated, Goto
  <1>10. ASSUME NEW c \in Call, SelectManifest(c) PROVE SnapshotInv'
    BY <1>10 DEF SelectManifest, Raise, Goto
  <1>11. ASSUME NEW c \in Call, QueryFails(c) PROVE SnapshotInv'
    BY <1>11 DEF QueryFails, Raise, Goto
  <1>12. ASSUME NEW c \in Call, AbandonWork(c) PROVE SnapshotInv'
    BY <1>12 DEF AbandonWork, Raise, Goto
  <1>13. ASSUME NEW c \in Call, SubmitCommit(c) PROVE SnapshotInv'
    BY <1>13 DEF SubmitCommit, Goto
  <1>14. ASSUME NEW c \in Call, CommitAcknowledged(c) PROVE SnapshotInv'
    BY <1>14 DEF CommitAcknowledged, Release, Goto, Result
  <1>15. ASSUME NEW c \in Call, CommitUnanswered(c) PROVE SnapshotInv'
    BY <1>15 DEF CommitUnanswered, Release, Goto
  <1>16. ASSUME NEW c \in Call, RollBack(c) PROVE SnapshotInv'
    BY <1>16 DEF RollBack, Release, Goto
  <1>17. ASSUME NEW c \in Call, RollBackFails(c) PROVE SnapshotInv'
    BY <1>17 DEF RollBackFails, Release, Goto
  <1>18. ASSUME NEW c \in Call, ServerCommit(c) PROVE SnapshotInv'
    BY <1>18 DEF ServerCommit
  <1>19. ASSUME NEW c \in Call, ServerAbort(c) PROVE SnapshotInv'
    BY <1>19 DEF ServerAbort
  <1>20. ASSUME NEW c \in Call, SocketError(c) PROVE SnapshotInv'
    BY <1>20 DEF SocketError
  <1>21. CASE HostCrash BY <1>21 DEF HostCrash
  <1>22. CASE Quiescent \/ UNCHANGED vars BY <1>22 DEF Quiescent, vars
  <1>23. QED BY <1>1, <1>2, <1>3, <1>4, <1>5, <1>6, <1>7, <1>8, <1>9, <1>10, <1>11, <1>12, <1>13, <1>14, <1>15, <1>16, <1>17, <1>18, <1>19, <1>20, <1>21, <1>22 DEF Next, Work, Settle

\* Row and event become durable in one server step.
LEMMA DurablePreserved ==
  ASSUME StoreAssumption, TypeOK, PhaseInv, StagingInv, VerdictInv, DurableInv, AnswerInv, [Next]_vars
  PROVE  DurableInv'
  <1> USE StoreAssumption DEF TypeOK, PhaseInv, StagingInv, VerdictInv, DurableInv, AnswerInv, Seeding, RowOf, Error, Querying, Awaiting, Location, hostVars, serverVars, OneEventPerManifest, StoreAssumption
  <1>1. ASSUME NEW c \in Call, Start(c) PROVE DurableInv'
    BY <1>1 DEF Start
  <1>2. ASSUME NEW c \in Call, Connect(c) PROVE DurableInv'
    BY <1>2 DEF Connect
  <1>3. ASSUME NEW c \in Call, ConnectFails(c) PROVE DurableInv'
    BY <1>3 DEF ConnectFails
  <1>4. ASSUME NEW c \in Call, BeginTransaction(c) PROVE DurableInv'
    BY <1>4 DEF BeginTransaction, Goto
  <1>5. ASSUME NEW c \in Call, SetScope(c) PROVE DurableInv'
    BY <1>5 DEF SetScope, Goto
  <1>6. ASSUME NEW c \in Call, RefuseInstant(c) PROVE DurableInv'
    BY <1>6 DEF RefuseInstant, Raise, Goto
  <1>7. ASSUME NEW c \in Call, InsertManifest(c) PROVE DurableInv'
    BY <1>7 DEF InsertManifest, Goto
  <1>8. ASSUME NEW c \in Call, VerifyFingerprint(c) PROVE DurableInv'
    BY <1>8 DEF VerifyFingerprint, Raise, Goto, Visible
  <1>9. ASSUME NEW c \in Call, EmitCreated(c) PROVE DurableInv'
    BY <1>9 DEF EmitCreated, Goto
  <1>10. ASSUME NEW c \in Call, SelectManifest(c) PROVE DurableInv'
    BY <1>10 DEF SelectManifest, Raise, Goto
  <1>11. ASSUME NEW c \in Call, QueryFails(c) PROVE DurableInv'
    BY <1>11 DEF QueryFails, Raise, Goto
  <1>12. ASSUME NEW c \in Call, AbandonWork(c) PROVE DurableInv'
    BY <1>12 DEF AbandonWork, Raise, Goto
  <1>13. ASSUME NEW c \in Call, SubmitCommit(c) PROVE DurableInv'
    BY <1>13 DEF SubmitCommit, Goto
  <1>14. ASSUME NEW c \in Call, CommitAcknowledged(c) PROVE DurableInv'
    <2>1. rows' = rows /\ outbox' = outbox /\ req' = req /\ staged' = staged /\ tx' = tx
      BY <1>14 DEF CommitAcknowledged
    <2>2. OneEventPerManifest' BY <2>1
    <2>3. c \in outbox => Result(c) = "OK" BY DEF Result
    <2>4. c \in outbox => reply'[c] \in {"OK", "UNAVAILABLE"}
      BY <1>14, <2>3 DEF CommitAcknowledged, Release
    <2>5. \A d \in Call : d # c => reply'[d] = reply[d]
      BY <1>14 DEF CommitAcknowledged, Release
    <2>6. QED BY <2>1, <2>2, <2>4, <2>5
  <1>15. ASSUME NEW c \in Call, CommitUnanswered(c) PROVE DurableInv'
    BY <1>15 DEF CommitUnanswered, Release, Goto
  <1>16. ASSUME NEW c \in Call, RollBack(c) PROVE DurableInv'
    BY <1>16 DEF RollBack, Release, Goto
  <1>17. ASSUME NEW c \in Call, RollBackFails(c) PROVE DurableInv'
    <2>1. rows' = rows /\ outbox' = outbox /\ req' = req /\ staged' = staged /\ tx' = tx
      BY <1>17 DEF RollBackFails
    <2>2. OneEventPerManifest' BY <2>1
    <2>3. reply' = [reply EXCEPT ![c] = "UNAVAILABLE"]
      BY <1>17 DEF RollBackFails, Release
    <2>4. QED BY <2>1, <2>2, <2>3
  <1>18. ASSUME NEW c \in Call, ServerCommit(c) PROVE DurableInv'
    <2> DEFINE n == req[c].name
    <2>1. \A d \in outbox : staged[d] = {} /\ tx[d] = "committed" /\ d # c
      BY <1>18 DEF ServerCommit
    <2>2. CASE "row" \in staged[c]
      <3>1. "event" \in staged[c] /\ rows[n] = NoRow /\ Seeding(c) /\ n \in Name
        BY <1>18, <2>2 DEF ServerCommit, Request
      <3>2. /\ outbox' = outbox \union {c}
            /\ rows' = [rows EXCEPT ![n] = req[c].facts]
            /\ req' = req /\ reply' = reply
            /\ staged' = [staged EXCEPT ![c] = {}]
            /\ tx' = [tx EXCEPT ![c] = "committed"]
        BY <1>18, <2>2, <3>1 DEF ServerCommit
      <3>3. \A d \in outbox : req[d].name # n
        BY <3>1 DEF Request
      <3>4. OneEventPerManifest'
        BY <3>1, <3>2, <3>3 DEF Request
      <3>5. QED BY <2>1, <3>1, <3>2, <3>4
    <2>3. CASE "row" \notin staged[c]
      <3>1. staged[c] = {} BY <2>3
      <3>2. rows' = rows /\ outbox' = outbox /\ req' = req /\ reply' = reply
        BY <1>18, <3>1 DEF ServerCommit
      <3>3. OneEventPerManifest' BY <3>2
      <3>4. QED BY <1>18, <2>1, <3>2, <3>3 DEF ServerCommit
    <2>4. QED BY <2>2, <2>3
  <1>19. ASSUME NEW c \in Call, ServerAbort(c) PROVE DurableInv'
    BY <1>19 DEF ServerAbort
  <1>20. ASSUME NEW c \in Call, SocketError(c) PROVE DurableInv'
    BY <1>20 DEF SocketError
  <1>21. CASE HostCrash BY <1>21 DEF HostCrash
  <1>22. CASE Quiescent \/ UNCHANGED vars BY <1>22 DEF Quiescent, vars
  <1>23. QED BY <1>1, <1>2, <1>3, <1>4, <1>5, <1>6, <1>7, <1>8, <1>9, <1>10, <1>11, <1>12, <1>13, <1>14, <1>15, <1>16, <1>17, <1>18, <1>19, <1>20, <1>21, <1>22 DEF Next, Work, Settle

\* The answers stay true after they were given.
LEMMA AnswerPreserved ==
  ASSUME StoreAssumption, TypeOK, PhaseInv, StagingInv, VerdictInv, SnapshotInv, AnswerInv, [Next]_vars
  PROVE  AnswerInv'
  <1> USE StoreAssumption DEF TypeOK, PhaseInv, StagingInv, VerdictInv, SnapshotInv, AnswerInv, Seeding, RowOf, Error, Querying, Awaiting, Location, hostVars, serverVars, Reply, Row, StoreAssumption
  <1>1. ASSUME NEW c \in Call, Start(c) PROVE AnswerInv'
    BY <1>1 DEF Start
  <1>2. ASSUME NEW c \in Call, Connect(c) PROVE AnswerInv'
    BY <1>2 DEF Connect
  <1>3. ASSUME NEW c \in Call, ConnectFails(c) PROVE AnswerInv'
    BY <1>3 DEF ConnectFails
  <1>4. ASSUME NEW c \in Call, BeginTransaction(c) PROVE AnswerInv'
    BY <1>4 DEF BeginTransaction, Goto
  <1>5. ASSUME NEW c \in Call, SetScope(c) PROVE AnswerInv'
    BY <1>5 DEF SetScope, Goto
  <1>6. ASSUME NEW c \in Call, RefuseInstant(c) PROVE AnswerInv'
    BY <1>6 DEF RefuseInstant, Raise, Goto
  <1>7. ASSUME NEW c \in Call, InsertManifest(c) PROVE AnswerInv'
    BY <1>7 DEF InsertManifest, Goto
  <1>8. ASSUME NEW c \in Call, VerifyFingerprint(c) PROVE AnswerInv'
    BY <1>8 DEF VerifyFingerprint, Raise, Goto, Visible
  <1>9. ASSUME NEW c \in Call, EmitCreated(c) PROVE AnswerInv'
    BY <1>9 DEF EmitCreated, Goto
  <1>10. ASSUME NEW c \in Call, SelectManifest(c) PROVE AnswerInv'
    BY <1>10 DEF SelectManifest, Raise, Goto
  <1>11. ASSUME NEW c \in Call, QueryFails(c) PROVE AnswerInv'
    BY <1>11 DEF QueryFails, Raise, Goto
  <1>12. ASSUME NEW c \in Call, AbandonWork(c) PROVE AnswerInv'
    BY <1>12 DEF AbandonWork, Raise, Goto
  <1>13. ASSUME NEW c \in Call, SubmitCommit(c) PROVE AnswerInv'
    BY <1>13 DEF SubmitCommit, Goto
  <1>14. ASSUME NEW c \in Call, CommitAcknowledged(c) PROVE AnswerInv'
    BY <1>14 DEF CommitAcknowledged, Release, Goto, Result
  <1>15. ASSUME NEW c \in Call, CommitUnanswered(c) PROVE AnswerInv'
    BY <1>15 DEF CommitUnanswered, Release, Goto
  <1>16. ASSUME NEW c \in Call, RollBack(c) PROVE AnswerInv'
    BY <1>16 DEF RollBack, Release, Goto
  <1>17. ASSUME NEW c \in Call, RollBackFails(c) PROVE AnswerInv'
    BY <1>17 DEF RollBackFails, Release, Goto
  <1>18. ASSUME NEW c \in Call, ServerCommit(c) PROVE AnswerInv'
    <2>1. req' = req /\ pc' = pc /\ failure' = failure /\ seen' = seen /\ reply' = reply
      BY <1>18 DEF ServerCommit
    <2>2. \A d \in Call : RowOf(d) # NoRow => RowOf(d)' = RowOf(d)
      BY <2>1, RowsKept DEF Request
    <2>3. \A d \in Call : d # c => staged'[d] = staged[d] /\ tx'[d] = tx[d]
      BY <1>18 DEF ServerCommit
    <2>4. staged'[c] = {} /\ tx'[c] = "committed" /\ tx[c] = "committing"
      BY <1>18 DEF ServerCommit
    <2>5. "row" \in staged[c] => RowOf(c)' = req[c].facts
      BY <1>18 DEF ServerCommit, Request
    <2>6. QED BY <2>1, <2>2, <2>3, <2>4, <2>5 DEF Request
  <1>19. ASSUME NEW c \in Call, ServerAbort(c) PROVE AnswerInv'
    BY <1>19 DEF ServerAbort
  <1>20. ASSUME NEW c \in Call, SocketError(c) PROVE AnswerInv'
    BY <1>20 DEF SocketError
  <1>21. CASE HostCrash BY <1>21 DEF HostCrash
  <1>22. CASE Quiescent \/ UNCHANGED vars BY <1>22 DEF Quiescent, vars
  <1>23. QED BY <1>1, <1>2, <1>3, <1>4, <1>5, <1>6, <1>7, <1>8, <1>9, <1>10, <1>11, <1>12, <1>13, <1>14, <1>15, <1>16, <1>17, <1>18, <1>19, <1>20, <1>21, <1>22 DEF Next, Work, Settle

-----------------------------------------------------------------------------
(* Results                                                                 *)

LEMMA InitIInv == StoreAssumption /\ Init => IInv
  <1> SUFFICES ASSUME StoreAssumption, Init PROVE IInv OBVIOUS
  <1> USE StoreAssumption DEF Init, StoreAssumption
  <1>1. TypeOK BY InitTypeOK
  <1>2. PhaseInv BY DEF PhaseInv, Querying
  <1>3. CustodyInv BY DEF CustodyInv, Awaiting, Querying
  <1>4. StagingInv BY DEF StagingInv
  <1>5. VerdictInv BY DEF VerdictInv
  <1>6. SnapshotInv BY DEF SnapshotInv
  <1>7. DurableInv BY DEF DurableInv, OneEventPerManifest
  <1>8. AnswerInv BY DEF AnswerInv
  <1>9. QED BY <1>1, <1>2, <1>3, <1>4, <1>5, <1>6, <1>7, <1>8 DEF IInv

LEMMA NextIInv == StoreAssumption /\ IInv /\ [Next]_vars => IInv'
  BY NextTypeOK, PhasePreserved, CustodyPreserved, StagingPreserved,
     VerdictPreserved, SnapshotPreserved, DurablePreserved, AnswerPreserved
  DEF IInv

\* The inductive invariant holds in every reachable state.
THEOREM StoreInvariant == Spec => []IInv
  <1>1. Init => IInv BY InitIInv, StoreAssumption
  <1>2. IInv /\ [Next]_vars => IInv' BY NextIInv, StoreAssumption
  <1>3. QED BY <1>1, <1>2, PTL DEF Spec

\* One row and one outbox event per registered manifest, whatever number of
\* hosts, retries, crashes and lost acknowledgements of seed there are.
THEOREM StoreOneEvent == Spec => []OneEventPerManifest
  <1>1. IInv => OneEventPerManifest BY DEF IInv, DurableInv
  <1>2. QED BY <1>1, StoreInvariant, PTL

\* What read and seed answer is true of the table, then and ever after.
THEOREM StoreAnswers == Spec => []AnswersTruthful
  <1>1. IInv => AnswersTruthful
    BY StoreAssumption
    DEF IInv, AnswersTruthful, AnswerInv, SnapshotInv, StoreAssumption
  <1>2. QED BY <1>1, StoreInvariant, PTL

\* A read that answers "not registered" began when the name was free.
THEOREM StoreFreshReads == Spec => []ReadsAreFresh
  <1>1. IInv => ReadsAreFresh
    BY DEF IInv, ReadsAreFresh, AnswerInv, SnapshotInv
  <1>2. QED BY <1>1, StoreInvariant, PTL

\* releaseManifestClient returns only clean sessions to the pool and never
\* unguards a socket it may still own.
THEOREM StoreClients == Spec => [](PooledClientsClean /\ GuardedUntilTransferred)
  <1>1. IInv => PooledClientsClean /\ GuardedUntilTransferred
    BY DEF IInv, PooledClientsClean, GuardedUntilTransferred, CustodyInv
  <1>2. QED BY <1>1, StoreInvariant, PTL

\* The identity of a stored manifest is immutable.
THEOREM StoreImmutable == Spec => ManifestImmutable
  <1>1. IInv /\ [Next]_vars =>
          [\A n \in Name : rows[n] # NoRow => rows'[n] = rows[n]]_vars
    BY RowsKept, StoreAssumption DEF IInv
  <1>2. QED BY <1>1, StoreInvariant, PTL DEF Spec, ManifestImmutable

\* Only a COMMIT adds an event, and it adds that of its own call.
LEMMA OnlyCommitRecords ==
  ASSUME [Next]_vars, NEW c \in Call, c \in outbox' \ outbox
  PROVE  ServerCommit(c) /\ "event" \in staged[c]
  <1> USE DEF serverVars, hostVars
  <1>1. ASSUME NEW d \in Call, ServerCommit(d), d # c PROVE FALSE
    BY <1>1 DEF ServerCommit
  <1>2. ASSUME NEW d \in Call,
               Start(d) \/ Connect(d) \/ ConnectFails(d) \/ Work(d)
        PROVE  outbox' = outbox
    BY <1>2 DEF Start, Connect, ConnectFails, Work, BeginTransaction, SetScope,
                RefuseInstant, InsertManifest, VerifyFingerprint, EmitCreated,
                SelectManifest, QueryFails
  <1>3. ASSUME NEW d \in Call, Settle(d) \/ ServerAbort(d) \/ SocketError(d)
        PROVE  outbox' = outbox
    BY <1>3 DEF Settle, AbandonWork, SubmitCommit, CommitAcknowledged,
                CommitUnanswered, RollBack, RollBackFails, ServerAbort, SocketError
  <1>4. HostCrash \/ Quiescent \/ UNCHANGED vars => outbox' = outbox
    BY DEF HostCrash, Quiescent, vars
  <1>5. ServerCommit(c) BY <1>1, <1>2, <1>3, <1>4 DEF Next
  <1>6. QED BY <1>5 DEF ServerCommit

\* Nothing lands on behalf of a call that knows its outcome.
THEOREM StoreNoLateEffect == Spec => NoLateEffect
  <1>1. IInv /\ [Next]_vars =>
          [\A c \in Call : c \in outbox' \ outbox =>
             reply[c] \in {"none", "UNAVAILABLE"}]_vars
    BY OnlyCommitRecords DEF IInv, StagingInv
  <1>2. QED BY <1>1, StoreInvariant, PTL DEF Spec, NoLateEffect

-----------------------------------------------------------------------------
(* Refinement                                                              *)

\* A step that only answers a call is an Answer of the registry: the answer
\* is true because the invariant holds after the step.
LEMMA AnswerRefines ==
  ASSUME TypeOK, AnswerInv', NEW c \in Call, NEW a \in Reply \ {"none"},
         reply[c] = "none", reply' = [reply EXCEPT ![c] = a],
         UNCHANGED <<req, rows, outbox, seen>>
  PROVE  Registry!Answer(c)
  <1>1. reply'[c] = a BY DEF TypeOK
  <1>2. a \in Registry!Reply \ {"none"} BY DEF Reply, Error, Registry!Reply
  <1>3. Registry!Truthful(c, a)
    <2>1. CASE a = "OK"
      BY <1>1, <2>1 DEF Registry!Truthful, AnswerInv, Seeding, RowOf, TypeOK, Request
    <2>2. CASE a = "ABSENT"
      BY <1>1, <2>2 DEF Registry!Truthful, AnswerInv, Seeding, TypeOK, Request
    <2>3. CASE a = "CONFLICT"
      BY <1>1, <2>3 DEF Registry!Truthful, AnswerInv, Seeding, RowOf
    <2>4. CASE a = "INVALID_ARGUMENT"
      BY <1>1, <2>4 DEF Registry!Truthful, AnswerInv, Seeding
    <2>5. CASE a = "UNAVAILABLE"
      BY <2>5 DEF Registry!Truthful
    <2>6. QED BY <2>1, <2>2, <2>3, <2>4, <2>5 DEF Reply, Error
  <1>4. QED BY <1>2, <1>3 DEF Registry!Answer

LEMMA ReleaseAnswers ==
  ASSUME TypeOK, NEW c \in Call, NEW outcome \in Reply \ {"none"},
         NEW unhealthy \in BOOLEAN, Release(c, outcome, unhealthy)
  PROVE  \E a \in Reply \ {"none"} : reply' = [reply EXCEPT ![c] = a]
  BY DEF Release, Reply, Error

\* Every step of the store is a step of the registry or leaves it unchanged.
LEMMA StepRefines ==
  ASSUME StoreAssumption, IInv, IInv', [Next]_vars
  PROVE  [Registry!Next]_(Registry!registryVars)
  <1> USE DEF IInv, serverVars, hostVars, Registry!registryVars
  <1>1. ASSUME NEW c \in Call, ServerCommit(c)
        PROVE  Registry!Land(c) \/ UNCHANGED Registry!registryVars
    <2>1. CASE "row" \in staged[c]
      <3>1. "event" \in staged[c] /\ rows[req[c].name] = NoRow /\ Seeding(c)
            /\ reply[c] \in {"none", "UNAVAILABLE"}
        BY <1>1, <2>1 DEF ServerCommit, StagingInv, RowOf
      <3>2. req[c].facts \notin OutOfRange
        BY <2>1, <3>1 DEF VerdictInv
      <3>3. QED
        BY <1>1, <2>1, <3>1, <3>2
        DEF ServerCommit, Registry!Land, Registry!Definite, Seeding
    <2>2. CASE "row" \notin staged[c]
      <3>1. staged[c] = {} BY <2>2 DEF StagingInv
      <3>2. QED BY <1>1, <3>1 DEF ServerCommit
    <2>3. QED BY <2>1, <2>2
  <1>2. ASSUME NEW c \in Call, SetScope(c)
        PROVE  Registry!Observe(c) \/ UNCHANGED Registry!registryVars
    <2>1. CASE Seeding(c) BY <1>2, <2>1 DEF SetScope
    <2>2. CASE ~Seeding(c)
      <3>1. reply[c] = "none" /\ seen[c] = Unread /\ req[c].op = "read"
        BY <1>2, <2>2
        DEF SetScope, PhaseInv, SnapshotInv, TypeOK, Request, Seeding, Reply
      <3>2. QED BY <1>2, <2>2, <3>1 DEF SetScope, Registry!Observe, RowOf
    <2>3. QED BY <2>1, <2>2
  <1>3. ASSUME NEW c \in Call,
               CommitAcknowledged(c) \/ CommitUnanswered(c) \/ RollBack(c)
                 \/ RollBackFails(c) \/ ConnectFails(c)
        PROVE  Registry!Answer(c)
    <2>1. reply[c] = "none" /\ UNCHANGED <<req, rows, outbox, seen>>
      BY <1>3 DEF CommitAcknowledged, CommitUnanswered, RollBack, RollBackFails,
                  ConnectFails, PhaseInv
    <2>2. PICK a \in Reply \ {"none"} : reply' = [reply EXCEPT ![c] = a]
      <3>1. CASE CommitAcknowledged(c)
        <4>1. Result(c) \in Reply \ {"none"} BY DEF Result, Reply
        <4>2. broken[c] \in BOOLEAN BY DEF TypeOK
        <4>3. QED BY <3>1, <4>1, <4>2, ReleaseAnswers DEF CommitAcknowledged
      <3>2. CASE CommitUnanswered(c)
        BY <3>2, ReleaseAnswers DEF CommitUnanswered, Reply, Error
      <3>3. CASE RollBack(c)
        <4>1. failure[c] \in Reply \ {"none"}
          BY <3>3 DEF RollBack, PhaseInv, Reply, Error
        <4>2. broken[c] \in BOOLEAN BY DEF TypeOK
        <4>3. QED BY <3>3, <4>1, <4>2, ReleaseAnswers DEF RollBack
      <3>4. CASE RollBackFails(c)
        BY <3>4, ReleaseAnswers DEF RollBackFails, Reply, Error
      <3>5. CASE ConnectFails(c) BY <3>5 DEF ConnectFails, Reply, Error
      <3>6. QED BY <1>3, <3>1, <3>2, <3>3, <3>4, <3>5
    <2>3. QED BY <2>1, <2>2, AnswerRefines
  <1>4. ASSUME NEW c \in Call,
               \/ Start(c) \/ Connect(c) \/ BeginTransaction(c) \/ RefuseInstant(c)
               \/ InsertManifest(c) \/ VerifyFingerprint(c) \/ EmitCreated(c)
               \/ SelectManifest(c) \/ QueryFails(c) \/ AbandonWork(c)
               \/ SubmitCommit(c) \/ ServerAbort(c) \/ SocketError(c)
        PROVE  UNCHANGED Registry!registryVars
    BY <1>4 DEF Start, Connect, BeginTransaction, RefuseInstant, InsertManifest,
                VerifyFingerprint, EmitCreated, SelectManifest, QueryFails,
                AbandonWork, SubmitCommit, ServerAbort, SocketError
  <1>5. HostCrash \/ Quiescent \/ UNCHANGED vars => UNCHANGED Registry!registryVars
    BY DEF HostCrash, Quiescent, vars
  <1>6. QED BY <1>1, <1>2, <1>3, <1>4, <1>5 DEF Next, Work, Settle, Registry!Next

\* The transactional store implements the atomic registry of immutable
\* manifests: callers never see a transaction, only its effect or its absence.
THEOREM StoreRefinesRegistry == Spec => ImplementsRegistry
  <1>1. Init => Registry!Init
    BY DEF Init, Registry!Init, Request, Registry!Request
  <1>2. IInv /\ IInv' /\ [Next]_vars => [Registry!Next]_(Registry!registryVars)
    BY StepRefines, StoreAssumption
  <1>3. QED
    BY <1>1, <1>2, StoreInvariant, PTL
    DEF Spec, ImplementsRegistry, Registry!Spec

=============================================================================
