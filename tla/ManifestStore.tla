---------------------------- MODULE ManifestStore ----------------------------
(***************************************************************************)
(* The PostgreSQL manifest store of the agent-context package, one step    *)
(* per awaited query.  Every call of read or seed runs the same            *)
(* transaction() wrapper on a client it takes from a shared pool:          *)
(*                                                                         *)
(*   connect -> BEGIN -> set_config -> work -> COMMIT -> release           *)
(*                                                                         *)
(* and each await may fail, the socket may report an error at any moment   *)
(* while the client is checked out, the server may end a session on its    *)
(* own, a COMMIT whose answer was lost may still be carried out after the  *)
(* caller was answered, and the host may die.                              *)
(*                                                                         *)
(* The tenant and project columns and the row-level policies are not here: *)
(* a validated name determines both (module ManifestApi).                  *)
(***************************************************************************)
EXTENDS FiniteSets, Integers

CONSTANTS Call,        \* calls of ManifestStore.read and ManifestStore.seed
          Name,        \* manifest resource names
          Facts,       \* manifest facts; the fingerprint is injective on them
          OutOfRange,  \* facts whose createdAt sqlInstant refuses
          NoRow,       \* no row under a name
          Damaged,     \* a row that fails storedManifest, assertManifest or
                       \* the fingerprint comparison
          Unread,      \* a read that has not taken its snapshot
          PoolSize     \* clients the host's pool can hand out

ASSUME StoreAssumption ==
    /\ OutOfRange \subseteq Facts
    /\ NoRow \notin Facts
    /\ Damaged \notin Facts
    /\ Unread \notin Facts
    /\ NoRow # Damaged
    /\ NoRow # Unread
    /\ Damaged # Unread
    /\ PoolSize \in Nat \ {0}

VARIABLES
    req,      \* the arguments of each call
    pc,       \* the await at which each call stands
    broken,   \* health.broken of the call's client
    guarded,  \* is the call's "error" listener installed?
    custody,  \* who holds the client
    failure,  \* the error in flight while ROLLBACK is awaited
    reply,    \* how the promise of the call settled
    seen,     \* the row in the snapshot of a read
    tx,       \* server: the session's transaction
    staged,   \* server: uncommitted writes of the transaction
    rows,     \* server: table agent_context.manifests
    outbox,   \* server: table agent_context.outbox, by the call that wrote
    existed   \* history: was the name registered when the call was made?

hostVars   == <<pc, broken, guarded, custody, failure, reply, seen>>
serverVars == <<tx, staged, rows, outbox>>
vars == <<req, hostVars, serverVars, existed>>

Request == [op : {"seed"}, name : Name, facts : Facts]
             \union [op : {"read"}, name : Name, facts : {NoRow}]

Row   == Facts \union {NoRow, Damaged}
Error == {"CONFLICT", "INVALID_ARGUMENT", "UNAVAILABLE"}
Reply == {"none", "OK", "ABSENT"} \union Error

Querying == {"begin", "scope", "insert", "verify", "emit", "select"}
Awaiting == Querying \union {"commit", "committing", "rollback"}
Location == {"idle", "connect", "done", "lost"} \union Awaiting

Seeding(c) == req[c].op = "seed"
RowOf(c)   == rows[req[c].name]

\* Calls whose transaction holds the unique-index entry of a name.
Holders(n) == {d \in Call : req[d].name = n /\ "row" \in staged[d]}

\* What a statement of c reads under READ COMMITTED: its own write, or the
\* committed row.
Visible(c) == IF "row" \in staged[c] THEN req[c].facts ELSE RowOf(c)

\* Clients out of the pool, including those a throwing release() stranded.
InUse == {c \in Call : custody[c] \in {"caller", "stranded"}}

Init ==
    /\ req \in [Call -> Request]
    /\ pc = [c \in Call |-> "idle"]
    /\ broken = [c \in Call |-> FALSE]
    /\ guarded = [c \in Call |-> FALSE]
    /\ custody = [c \in Call |-> "none"]
    /\ failure = [c \in Call |-> "none"]
    /\ reply = [c \in Call |-> "none"]
    /\ seen = [c \in Call |-> Unread]
    /\ tx = [c \in Call |-> "none"]
    /\ staged = [c \in Call |-> {}]
    /\ rows \in [Name -> {NoRow, Damaged}]
    /\ outbox = {}
    /\ existed = [c \in Call |-> FALSE]

-----------------------------------------------------------------------------
(* Taking a client                                                         *)

Start(c) ==
    /\ pc[c] = "idle"
    /\ pc' = [pc EXCEPT ![c] = "connect"]
    /\ existed' = [existed EXCEPT ![c] = RowOf(c) # NoRow]
    /\ UNCHANGED <<req, broken, guarded, custody, failure, reply, seen,
                   serverVars>>

Connect(c) ==
    /\ pc[c] = "connect"
    /\ Cardinality(InUse) < PoolSize
    /\ pc' = [pc EXCEPT ![c] = "begin"]
    /\ custody' = [custody EXCEPT ![c] = "caller"]
    /\ guarded' = [guarded EXCEPT ![c] = TRUE]
    /\ UNCHANGED <<req, broken, failure, reply, seen, serverVars, existed>>

ConnectFails(c) ==
    /\ pc[c] = "connect"
    /\ pc' = [pc EXCEPT ![c] = "done"]
    /\ reply' = [reply EXCEPT ![c] = "UNAVAILABLE"]
    /\ UNCHANGED <<req, broken, guarded, custody, failure, seen, serverVars,
                   existed>>

-----------------------------------------------------------------------------
(* The queries of the transaction.  A query answers only while the server  *)
(* still runs the transaction; any query may be rejected instead.          *)

Goto(c, label) == pc' = [pc EXCEPT ![c] = label]

\* An exception on the way to COMMIT: the handler awaits ROLLBACK next.
Raise(c, error) ==
    /\ Goto(c, "rollback")
    /\ failure' = [failure EXCEPT ![c] = error]

BeginTransaction(c) ==
    /\ pc[c] = "begin"
    /\ tx[c] = "none"
    /\ tx' = [tx EXCEPT ![c] = "open"]
    /\ Goto(c, "scope")
    /\ UNCHANGED <<req, broken, guarded, custody, failure, reply, seen,
                   staged, rows, outbox, existed>>

\* Mutant: set_config is forgotten, so row-level security hides every row.
SetScopeUnscoped(c) ==
    /\ pc[c] = "scope"
    /\ tx[c] = "open"
    /\ IF Seeding(c)
         THEN Goto(c, "insert") /\ UNCHANGED seen
         ELSE Goto(c, "select") /\ seen' = [seen EXCEPT ![c] = NoRow]
    /\ UNCHANGED <<req, broken, guarded, custody, failure, reply, serverVars,
                   existed>>

\* The first SELECT: under REPEATABLE READ it fixes the snapshot of a read.
SetScope(c) ==
    /\ pc[c] = "scope"
    /\ tx[c] = "open"
    /\ IF Seeding(c)
         THEN Goto(c, "insert") /\ UNCHANGED seen
         ELSE Goto(c, "select") /\ seen' = [seen EXCEPT ![c] = RowOf(c)]
    /\ UNCHANGED <<req, broken, guarded, custody, failure, reply, serverVars,
                   existed>>

\* sqlInstant throws before the INSERT is sent.
RefuseInstant(c) ==
    /\ pc[c] = "insert"
    /\ req[c].facts \in OutOfRange
    /\ Raise(c, "INVALID_ARGUMENT")
    /\ UNCHANGED <<req, broken, guarded, custody, reply, seen, serverVars,
                   existed>>

\* INSERT ... ON CONFLICT DO NOTHING waits for a transaction that holds the
\* same primary key, and writes nothing when a row is committed.
InsertManifest(c) ==
    /\ pc[c] = "insert"
    /\ tx[c] = "open"
    /\ req[c].facts \notin OutOfRange
    /\ Holders(req[c].name) = {}
    /\ staged' = [staged EXCEPT ![c] = IF RowOf(c) = NoRow THEN {"row"} ELSE {}]
    /\ Goto(c, "verify")
    /\ UNCHANGED <<req, broken, guarded, custody, failure, reply, seen, tx,
                   rows, outbox, existed>>

\* Mutants: the fingerprint is not compared; the event is recorded for a
\* reconciled manifest too; the event is forgotten.
VerifyNothing(c) ==
    /\ pc[c] = "verify"
    /\ tx[c] = "open"
    /\ Goto(c, IF "row" \in staged[c] THEN "emit" ELSE "commit")
    /\ UNCHANGED <<req, broken, guarded, custody, failure, reply, seen,
                   serverVars, existed>>
VerifyThenAlways(c, next) ==
    /\ pc[c] = "verify"
    /\ tx[c] = "open"
    /\ IF Visible(c) # req[c].facts
         THEN Raise(c, "CONFLICT")
         ELSE Goto(c, next) /\ UNCHANGED failure
    /\ UNCHANGED <<req, broken, guarded, custody, reply, seen, serverVars,
                   existed>>
VerifyThenEmit(c)   == VerifyThenAlways(c, "emit")
VerifyThenCommit(c) == VerifyThenAlways(c, "commit")

\* SELECT fingerprint: the row that is there must carry the caller's facts.
VerifyFingerprint(c) ==
    /\ pc[c] = "verify"
    /\ tx[c] = "open"
    /\ IF Visible(c) # req[c].facts
         THEN Raise(c, "CONFLICT")
         ELSE /\ Goto(c, IF "row" \in staged[c] THEN "emit" ELSE "commit")
              /\ UNCHANGED failure
    /\ UNCHANGED <<req, broken, guarded, custody, reply, seen, serverVars,
                   existed>>

EmitCreated(c) ==
    /\ pc[c] = "emit"
    /\ tx[c] = "open"
    /\ staged' = [staged EXCEPT ![c] = @ \union {"event"}]
    /\ Goto(c, "commit")
    /\ UNCHANGED <<req, broken, guarded, custody, failure, reply, seen, tx,
                   rows, outbox, existed>>

\* SELECT facts, fingerprint and the checks on the stored row: a damaged row
\* is reported by the check it fails, UNAVAILABLE or that of assertManifest.
SelectManifest(c) ==
    /\ pc[c] = "select"
    /\ tx[c] = "open"
    /\ IF seen[c] = Damaged
         THEN \E error \in {"UNAVAILABLE", "INVALID_ARGUMENT"} : Raise(c, error)
         ELSE Goto(c, "commit") /\ UNCHANGED failure
    /\ UNCHANGED <<req, broken, guarded, custody, reply, seen, serverVars,
                   existed>>

\* Mutant: the driver's error reaches the caller as it is.
QueryFailsRaw(c) ==
    /\ pc[c] \in Querying
    /\ Raise(c, "driver error")
    /\ UNCHANGED <<req, broken, guarded, custody, reply, seen, serverVars,
                   existed>>

\* A query is rejected: lock or statement timeout, trigger, lost socket.
QueryFails(c) ==
    /\ pc[c] \in Querying
    /\ Raise(c, "UNAVAILABLE")
    /\ UNCHANGED <<req, broken, guarded, custody, reply, seen, serverVars,
                   existed>>

-----------------------------------------------------------------------------
(* COMMIT, ROLLBACK and the return of the client                           *)

\* isBroken() before COMMIT: the work is given up.
AbandonWork(c) ==
    /\ pc[c] = "commit"
    /\ broken[c]
    /\ Raise(c, "UNAVAILABLE")
    /\ UNCHANGED <<req, broken, guarded, custody, reply, seen, serverVars,
                   existed>>

SubmitCommit(c) ==
    /\ pc[c] = "commit"
    /\ ~broken[c]
    /\ Goto(c, "committing")
    /\ tx' = [tx EXCEPT ![c] = IF @ = "open" THEN "committing" ELSE @]
    /\ UNCHANGED <<req, broken, guarded, custody, failure, reply, seen,
                   staged, rows, outbox, existed>>

\* releaseManifestClient, with the outcome the transaction settled on: the
\* pool keeps or destroys the client as its health says, the socket may fail
\* inside release(), and release() may itself throw, and then the listener
\* stays.  The health and the error are the call's locals and end with it.
Release(c, outcome, unhealthy) ==
    /\ Goto(c, "done")
    /\ broken' = [broken EXCEPT ![c] = FALSE]
    /\ failure' = [failure EXCEPT ![c] = "none"]
    /\ \/ /\ custody' = [custody EXCEPT ![c] =
                           IF unhealthy THEN "destroyed" ELSE "pooled"]
          /\ guarded' = [guarded EXCEPT ![c] = FALSE]
          /\ \E failsInside \in BOOLEAN :
               reply' = [reply EXCEPT ![c] =
                 IF unhealthy \/ failsInside THEN "UNAVAILABLE" ELSE outcome]
       \/ /\ custody' = [custody EXCEPT ![c] = "stranded"]
          /\ reply' = [reply EXCEPT ![c] = "UNAVAILABLE"]
          /\ UNCHANGED guarded

\* What the work returned to its caller.
Result(c) == IF seen[c] = NoRow THEN "ABSENT" ELSE "OK"

\* Mutant: the client is returned on the error path only.
CommitWithoutRelease(c) ==
    /\ pc[c] = "committing"
    /\ tx[c] = "committed"
    /\ Goto(c, "done")
    /\ reply' = [reply EXCEPT ![c] = Result(c)]
    /\ UNCHANGED <<req, broken, guarded, custody, failure, seen, serverVars,
                   existed>>

CommitAcknowledged(c) ==
    /\ pc[c] = "committing"
    /\ tx[c] = "committed"
    /\ Release(c, Result(c), broken[c])
    /\ UNCHANGED <<req, seen, serverVars, existed>>

\* Mutants: a rejected COMMIT leaves the client healthy; it passes for success.
CommitFailureHealthy(c) ==
    /\ pc[c] = "committing"
    /\ Release(c, "UNAVAILABLE", broken[c])
    /\ UNCHANGED <<req, seen, serverVars, existed>>
CommitFailureIgnored(c) ==
    /\ pc[c] = "committing"
    /\ Release(c, Result(c), broken[c])
    /\ UNCHANGED <<req, seen, serverVars, existed>>

\* COMMIT is rejected: the handler marks the client broken and does not know
\* what the server did, or will still do, with the transaction.
CommitUnanswered(c) ==
    /\ pc[c] = "committing"
    /\ Release(c, "UNAVAILABLE", TRUE)
    /\ UNCHANGED <<req, seen, serverVars, existed>>

RollBack(c) ==
    /\ pc[c] = "rollback"
    /\ tx[c] \in {"none", "open"}
    /\ tx' = [tx EXCEPT ![c] = "aborted"]
    /\ staged' = [staged EXCEPT ![c] = {}]
    /\ Release(c, failure[c], broken[c])
    /\ UNCHANGED <<req, seen, rows, outbox, existed>>

RollBackFails(c) ==
    /\ pc[c] = "rollback"
    /\ Release(c, "UNAVAILABLE", TRUE)
    /\ UNCHANGED <<req, seen, serverVars, existed>>

-----------------------------------------------------------------------------
(* The server, the socket and the host                                     *)

\* The server carries out a COMMIT, whether or not anybody still waits.
ServerCommit(c) ==
    /\ tx[c] = "committing"
    /\ tx' = [tx EXCEPT ![c] = "committed"]
    /\ staged' = [staged EXCEPT ![c] = {}]
    /\ rows' = IF "row" \in staged[c]
                 THEN [rows EXCEPT ![req[c].name] = req[c].facts]
                 ELSE rows
    /\ outbox' = IF "event" \in staged[c] THEN outbox \union {c} ELSE outbox
    /\ UNCHANGED <<req, hostVars, existed>>

\* The server ends the session: shutdown, crash, or a client that is gone.
ServerAbort(c) ==
    /\ tx[c] \in {"open", "committing"}
    /\ tx' = [tx EXCEPT ![c] = "aborted"]
    /\ staged' = [staged EXCEPT ![c] = {}]
    /\ UNCHANGED <<req, hostVars, rows, outbox, existed>>

\* The client emits "error" and the call's listener records it.
SocketError(c) ==
    /\ custody[c] = "caller"
    /\ ~broken[c]
    /\ broken' = [broken EXCEPT ![c] = TRUE]
    /\ UNCHANGED <<req, pc, guarded, custody, failure, reply, seen, serverVars,
                   existed>>

\* The host process dies: its calls are never answered, its sessions are
\* left to the server, and the next process starts with a fresh pool.
HostCrash ==
    /\ \E c \in Call : pc[c] \in Awaiting \union {"connect"}
    /\ LET died == {c \in Call : pc[c] \in Awaiting \union {"connect"}}
       IN  /\ pc' = [c \in Call |-> IF c \in died THEN "lost" ELSE pc[c]]
           /\ custody' = [c \in Call |->
                            IF custody[c] \in {"none", "pooled"}
                              THEN custody[c] ELSE "destroyed"]
           /\ guarded' = [c \in Call |-> FALSE]
           /\ broken' = [c \in Call |-> FALSE]
           /\ failure' = [c \in Call |-> "none"]
    /\ UNCHANGED <<req, reply, seen, serverVars, existed>>

\* Nothing is left to do once every call ended and every session settled.
Quiescent ==
    /\ \A c \in Call : /\ pc[c] \in {"done", "lost"}
                       /\ tx[c] \notin {"open", "committing"}
    /\ UNCHANGED vars

Work(c) ==
    \/ BeginTransaction(c) \/ SetScope(c) \/ RefuseInstant(c)
    \/ InsertManifest(c) \/ VerifyFingerprint(c) \/ EmitCreated(c)
    \/ SelectManifest(c) \/ QueryFails(c)

Settle(c) ==
    \/ AbandonWork(c) \/ SubmitCommit(c) \/ CommitAcknowledged(c)
    \/ CommitUnanswered(c) \/ RollBack(c) \/ RollBackFails(c)

Next ==
    \/ \E c \in Call :
         \/ Start(c) \/ Connect(c) \/ ConnectFails(c)
         \/ Work(c) \/ Settle(c)
         \/ ServerCommit(c) \/ ServerAbort(c) \/ SocketError(c)
    \/ HostCrash
    \/ Quiescent

\* Every await settles: statement_timeout and lock_timeout bound the queries
\* of the work, and the server notices sessions whose client is gone.
Reap(c) == custody[c] # "caller" /\ (ServerCommit(c) \/ ServerAbort(c))

Fairness == \A c \in Call : /\ WF_vars(Connect(c))
                            /\ WF_vars(Work(c) \/ Settle(c))
                            /\ WF_vars(Reap(c))

Spec == Init /\ [][Next]_vars
FairSpec == Spec /\ Fairness

-----------------------------------------------------------------------------
(* Properties                                                              *)

\* Every variable keeps its type.
TypeOK ==
    /\ req \in [Call -> Request]
    /\ pc \in [Call -> Location]
    /\ broken \in [Call -> BOOLEAN]
    /\ guarded \in [Call -> BOOLEAN]
    /\ custody \in [Call -> {"none", "caller", "pooled", "destroyed", "stranded"}]
    /\ failure \in [Call -> Error \union {"none"}]
    /\ reply \in [Call -> Reply]
    /\ seen \in [Call -> Row \union {Unread}]
    /\ tx \in [Call -> {"none", "open", "committing", "committed", "aborted"}]
    /\ staged \in [Call -> SUBSET {"row", "event"}]
    /\ rows \in [Name -> Row]
    /\ outbox \subseteq Call
    /\ existed \in [Call -> BOOLEAN]

\* Every manifest the store registered has exactly one SandboxManifestCreated
\* event, and every event the manifest it announces: however many calls seed
\* one name at once, are retried after UNAVAILABLE, or die half way.
OneEventPerManifest ==
    /\ \A n \in Name : rows[n] \in Facts =>
         \E c \in outbox : \A d \in outbox : req[d].name = n <=> d = c
    /\ \A c \in outbox : Seeding(c) /\ RowOf(c) = req[c].facts

\* A stored manifest never changes and is never removed, not even by a COMMIT
\* that lands after its caller gave up on it.
ManifestImmutable ==
    [][\A n \in Name : rows[n] # NoRow => rows'[n] = rows[n]]_vars

\* A definite answer is true: a seed answered OK registered or found exactly
\* its facts, CONFLICT means another manifest is there for good, and an
\* answer to a read is the row its snapshot showed, still the row today.
AnswersTruthful ==
    \A c \in Call :
      /\ Seeding(c) /\ reply[c] = "OK" => RowOf(c) = req[c].facts
      /\ reply[c] = "CONFLICT" => RowOf(c) \notin {NoRow, req[c].facts}
      /\ ~Seeding(c) /\ reply[c] = "OK" =>
           RowOf(c) \in Facts /\ seen[c] = RowOf(c)
      /\ ~Seeding(c) /\ reply[c] = "INVALID_ARGUMENT" => RowOf(c) = Damaged

\* A read never misses a manifest that was registered before the read was
\* made: ABSENT only ever answers for a name that was free at the call.
ReadsAreFresh ==
    \A c \in Call : reply[c] = "ABSENT" => ~existed[c]

\* Once a call was told its outcome, nothing of it lands any more: only a call
\* that was answered UNAVAILABLE, or lost its host, is still in doubt.
NoLateEffect ==
    [][\A c \in Call : c \in outbox' \ outbox =>
         reply[c] \in {"none", "UNAVAILABLE"}]_vars

\* A client goes back to the pool only with its transaction over: the next
\* borrower never inherits an open transaction, its locks or its tenant.
PooledClientsClean ==
    \A c \in Call : custody[c] = "pooled" => tx[c] \in {"committed", "aborted"}

\* The error listener stays until custody of the socket was transferred: an
\* error on a client the call still holds never crashes the host.
GuardedUntilTransferred ==
    \A c \in Call : custody[c] \in {"caller", "stranded"} => guarded[c]

\* The transactions implement the atomic registry.
Registry == INSTANCE ManifestRegistry
ImplementsRegistry == Registry!Spec

\* Every call is answered, unless the host dies or throwing release() calls
\* have stranded every client of the pool.
Exhausted == Cardinality({c \in Call : custody[c] = "stranded"}) >= PoolSize
CallsAnswered ==
    \A c \in Call : pc[c] = "connect" ~> pc[c] \in {"done", "lost"} \/ Exhausted

=============================================================================
