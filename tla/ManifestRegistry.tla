-------------------------- MODULE ManifestRegistry --------------------------
(***************************************************************************)
(* What the sandbox-manifest store promises its callers, without           *)
(* connections, transactions or locks: a registry of immutable manifests   *)
(* in which every registration lands at most once, together with exactly   *)
(* one outbox event, and in which every definite answer is true.  A call   *)
(* answered UNAVAILABLE (or never answered, because its host died) is in   *)
(* doubt: it may still land later, or never.                               *)
(***************************************************************************)
CONSTANTS Call,        \* identities of the calls made on the store
          Name,        \* manifest resource names
          Facts,       \* manifest facts; equal facts have equal fingerprints
          OutOfRange,  \* facts whose createdAt no timestamptz can hold
          NoRow,       \* no manifest is registered under the name
          Damaged,     \* a stored row whose facts or fingerprint do not check
          Unread       \* a read that has not taken its snapshot yet

VARIABLES req,     \* what each call asks for
          rows,    \* table agent_context.manifests
          outbox,  \* table agent_context.outbox: the calls whose event is stored
          reply,   \* what each call was answered
          seen     \* the row each read observed

registryVars == <<req, rows, outbox, reply, seen>>

\* A read carries a name only; a seed carries the facts to register as well.
Request == [op : {"seed"}, name : Name, facts : Facts]
             \union [op : {"read"}, name : Name, facts : {NoRow}]

Row   == Facts \union {NoRow, Damaged}
Reply == {"none", "OK", "ABSENT", "CONFLICT", "INVALID_ARGUMENT", "UNAVAILABLE"}

\* An answer after which the caller knows the outcome of its call.
Definite == Reply \ {"none", "UNAVAILABLE"}

Init ==
    /\ req \in [Call -> Request]
    /\ rows \in [Name -> {NoRow, Damaged}]
    /\ outbox = {}
    /\ reply = [c \in Call |-> "none"]
    /\ seen = [c \in Call |-> Unread]

\* The registration of c takes effect: the row and its event, together.
Land(c) ==
    /\ req[c].op = "seed"
    /\ reply[c] \notin Definite
    /\ req[c].facts \notin OutOfRange
    /\ rows[req[c].name] = NoRow
    /\ rows' = [rows EXCEPT ![req[c].name] = req[c].facts]
    /\ outbox' = outbox \union {c}
    /\ UNCHANGED <<req, reply, seen>>

\* A read looks at the registry, once, at some moment of the call.
Observe(c) ==
    /\ req[c].op = "read"
    /\ reply[c] = "none"
    /\ seen[c] = Unread
    /\ seen' = [seen EXCEPT ![c] = rows[req[c].name]]
    /\ UNCHANGED <<req, rows, outbox, reply>>

\* When an answer is true of the registry.
Truthful(c, answer) ==
    CASE answer = "OK" -> IF req[c].op = "seed"
                            THEN rows[req[c].name] = req[c].facts
                            ELSE seen[c] \in Facts
      [] answer = "ABSENT" -> req[c].op = "read" /\ seen[c] = NoRow
      [] answer = "CONFLICT" -> /\ req[c].op = "seed"
                                /\ rows[req[c].name] \notin {NoRow, req[c].facts}
      [] answer = "INVALID_ARGUMENT" -> IF req[c].op = "seed"
                                          THEN req[c].facts \in OutOfRange
                                          ELSE seen[c] = Damaged
      [] OTHER -> answer = "UNAVAILABLE"

Answer(c) ==
    /\ reply[c] = "none"
    /\ \E answer \in Reply \ {"none"} :
         /\ Truthful(c, answer)
         /\ reply' = [reply EXCEPT ![c] = answer]
    /\ UNCHANGED <<req, rows, outbox, seen>>

Next == \E c \in Call : Land(c) \/ Observe(c) \/ Answer(c)

Spec == Init /\ [][Next]_registryVars

=============================================================================
