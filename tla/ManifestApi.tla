----------------------------- MODULE ManifestApi -----------------------------
(***************************************************************************)
(* The use cases in front of the manifest store: getManifest and the       *)
(* host-only seedManifest.  Each copies its arguments, validates them,     *)
(* awaits the host's authorization port and then awaits the store.  While  *)
(* a call is suspended its caller may change the very objects it passed,   *)
(* and authority may be revoked or granted.                                *)
(*                                                                         *)
(* The store is the atomic registry that ManifestStore implements: its     *)
(* effect is one step, and a seed answered UNAVAILABLE may still land.     *)
(*                                                                         *)
(* A project id is tenants/T/projects/P and a resource name starts with    *)
(* its project id, so a project names its tenant (OwnerOf) and a name its  *)
(* project (ProjectOf); the references inside the facts lie in RefsIn.     *)
(***************************************************************************)
EXTENDS ManifestInstant

CONSTANTS Call, Tenant, Project, Name, Facts,
          OwnerOf,    \* the tenant written in a project id
          ProjectOf,  \* the project written in a manifest name
          RefsIn,     \* the project the references of the facts name
          CreatedAt,  \* the instant in the facts, in microseconds
          Malformed,  \* facts refused by a pattern or with undeclared fields
          Offered,    \* the arguments callers pass
          None

Context == [tenant : Tenant, project : Project]

\* getManifest(context, input) and seedManifest(context, manifest).
Input == [op : {"get"}, context : Context, name : Name, facts : {None}]
           \union [op : {"seed"}, context : Context, name : Name, facts : Facts]

\* A stored row, with the call that wrote it (history).
StoredRow == [tenant : Tenant, project : Project, facts : Facts,
              createdAt : Timestamp, by : Call]

ASSUME ApiAssumption ==
    /\ OwnerOf \in [Project -> Tenant]
    /\ ProjectOf \in [Name -> Project]
    /\ RefsIn \in [Facts -> Project]
    /\ CreatedAt \in [Facts -> Int]
    /\ Malformed \subseteq Facts
    /\ Offered \subseteq Input
    /\ None \notin Facts \union Input \union StoredRow

VARIABLES at,         \* where each call stands
          args,       \* the caller's own objects, which it may change
          copy,       \* structuredClone of them, taken on entry
          authority,  \* tenants whose scope the host authorizes right now
          rows,       \* the registry: columns of the row under each name
          answer,     \* how each call settled
          got,        \* the facts a get returned
          entry,      \* history: the arguments as they were on entry
          held        \* history: calls whose authority was held at some time

vars == <<at, args, copy, authority, rows, answer, got, entry, held>>

Code == {"INVALID_ARGUMENT", "PERMISSION_DENIED", "NOT_FOUND", "CONFLICT",
         "UNAVAILABLE"}

Init ==
    /\ at = [c \in Call |-> "idle"]
    /\ args \in [Call -> Offered]
    /\ copy = [c \in Call |-> None]
    /\ authority \in SUBSET Tenant
    /\ rows = [n \in Name |-> None]
    /\ answer = [c \in Call |-> "none"]
    /\ got = [c \in Call |-> None]
    /\ entry = [c \in Call |-> None]
    /\ held = {}

-----------------------------------------------------------------------------
(* Validation                                                              *)

\* Mutant: the tenant of the request is not compared with the project's.
AnyScope(context) == TRUE

\* assertManifestScope: the project id belongs to the authenticated tenant.
ScopeOK(context) == OwnerOf[context.project] = context.tenant

\* assertManifestResource: the name lies in the project of the request.
ResourceOK(context, name) == ProjectOf[name] = context.project

\* assertManifest: name, references and fields.
ManifestOK(context, name, facts) ==
    /\ ResourceOK(context, name)
    /\ facts \notin Malformed
    /\ RefsIn[facts] = context.project

Valid(in) ==
    /\ ScopeOK(in.context)
    /\ IF in.op = "seed" THEN ManifestOK(in.context, in.name, in.facts)
                         ELSE ResourceOK(in.context, in.name)

\* The scope is checked first, whatever else is wrong.
Refusal(in) ==
    IF ScopeOK(in.context) THEN "INVALID_ARGUMENT" ELSE "PERMISSION_DENIED"

-----------------------------------------------------------------------------
(* The calls                                                               *)

\* Mutant: the arguments are read where they are used.
LiveArguments(c) == args[c]

\* What the use case works with after entry.
Captured(c) == copy[c]

Finish(c, outcome) ==
    /\ at' = [at EXCEPT ![c] = "done"]
    /\ answer' = [answer EXCEPT ![c] = outcome]

Enter(c) ==
    /\ at[c] = "idle"
    /\ copy' = [copy EXCEPT ![c] = args[c]]
    /\ entry' = [entry EXCEPT ![c] = args[c]]
    /\ held' = held \union {d \in {c} : args[c].context.tenant \in authority}
    /\ IF Valid(args[c])
         THEN at' = [at EXCEPT ![c] = "authorizing"] /\ UNCHANGED answer
         ELSE Finish(c, Refusal(args[c]))
    /\ UNCHANGED <<args, authority, rows, got>>

\* Mutant: the promise of assertAuthorized is not awaited.
AuthorizeUnawaited(c) ==
    /\ at[c] = "authorizing"
    /\ at' = [at EXCEPT ![c] = "storing"]
    /\ UNCHANGED <<args, copy, authority, rows, answer, got, entry, held>>

\* The authorization port decides on the captured context, on the authority
\* of that moment.
Authorize(c) ==
    /\ at[c] = "authorizing"
    /\ IF Captured(c).context.tenant \in authority
         THEN at' = [at EXCEPT ![c] = "storing"] /\ UNCHANGED answer
         ELSE Finish(c, "PERMISSION_DENIED")
    /\ UNCHANGED <<args, copy, authority, rows, got, entry, held>>

\* The row a seed writes: the columns come from the context, the facts from
\* the manifest, the time column from the instant in the facts.
Row(c) == [tenant |-> Captured(c).context.tenant,
           project |-> Captured(c).context.project,
           facts |-> Captured(c).facts,
           createdAt |-> SqlInstant(CreatedAt[Captured(c).facts]), by |-> c]

\* sqlInstant throws before the INSERT is sent.
InCalendar(c) == ~Refused(CreatedAt[Captured(c).facts])

Register(c) ==
    LET name == Captured(c).name
    IN  rows' = [rows EXCEPT ![name] = IF @ = None THEN Row(c) ELSE @]

StoreSeed(c) ==
    /\ at[c] = "storing"
    /\ Captured(c).op = "seed"
    /\ \/ /\ InCalendar(c)
          /\ Register(c)
          /\ LET stored == rows'[Captured(c).name]
             IN  Finish(c, IF stored.facts = Captured(c).facts
                             THEN "OK" ELSE "CONFLICT")
       \/ /\ ~InCalendar(c)
          /\ Finish(c, "INVALID_ARGUMENT")
          /\ UNCHANGED rows
    /\ UNCHANGED <<args, copy, authority, got, entry, held>>

\* Mutant: an absent manifest is passed on to assertManifest.
StoreReadUnchecked(c) ==
    /\ at[c] = "storing"
    /\ Captured(c).op = "get"
    /\ LET row == rows[Captured(c).name]
           mine == /\ row # None
                   /\ row.tenant = Captured(c).context.tenant
                   /\ row.project = Captured(c).context.project
       IN  /\ Finish(c, IF mine THEN "OK" ELSE "TypeError")
           /\ got' = [got EXCEPT ![c] = IF mine THEN row.facts ELSE None]
    /\ UNCHANGED <<args, copy, authority, rows, entry, held>>

StoreRead(c) ==
    /\ at[c] = "storing"
    /\ Captured(c).op = "get"
    /\ LET row == rows[Captured(c).name]
           mine == /\ row # None
                   /\ row.tenant = Captured(c).context.tenant
                   /\ row.project = Captured(c).context.project
       IN  /\ Finish(c, IF mine THEN "OK" ELSE "NOT_FOUND")
           /\ got' = [got EXCEPT ![c] = IF mine THEN row.facts ELSE None]
    /\ UNCHANGED <<args, copy, authority, rows, entry, held>>

StoreUnavailable(c) ==
    /\ at[c] = "storing"
    /\ Finish(c, "UNAVAILABLE")
    /\ UNCHANGED <<args, copy, authority, rows, got, entry, held>>

\* The COMMIT of a seed answered UNAVAILABLE lands after all.
LandLate(c) ==
    /\ answer[c] = "UNAVAILABLE"
    /\ Captured(c).op = "seed"
    /\ InCalendar(c)
    /\ rows[Captured(c).name] = None
    /\ Register(c)
    /\ UNCHANGED <<at, args, copy, authority, answer, got, entry, held>>

-----------------------------------------------------------------------------
(* The host around the calls                                               *)

\* The caller changes an object it has passed to a suspended call.
CallerChanges(c) ==
    /\ at[c] \in {"authorizing", "storing"}
    /\ \E in \in Offered \ {args[c]} :
         in.op = args[c].op /\ args' = [args EXCEPT ![c] = in]
    /\ UNCHANGED <<at, copy, authority, rows, answer, got, entry, held>>

Revoke(t) ==
    /\ t \in authority
    /\ authority' = authority \ {t}
    /\ UNCHANGED <<at, args, copy, rows, answer, got, entry, held>>

Grant(t) ==
    /\ t \notin authority
    /\ authority' = authority \union {t}
    /\ held' = held \union {c \in Call : /\ at[c] = "authorizing"
                                     /\ entry[c].context.tenant = t}
    /\ UNCHANGED <<at, args, copy, rows, answer, got, entry>>

Next ==
    \/ \E c \in Call : \/ Enter(c) \/ Authorize(c) \/ StoreSeed(c)
                       \/ StoreRead(c) \/ StoreUnavailable(c) \/ LandLate(c)
                       \/ CallerChanges(c)
    \/ \E t \in Tenant : Revoke(t) \/ Grant(t)

Spec == Init /\ [][Next]_vars

-----------------------------------------------------------------------------
(* Properties                                                              *)

\* Every variable keeps its type.
TypeOK ==
    /\ at \in [Call -> {"idle", "authorizing", "storing", "done"}]
    /\ args \in [Call -> Offered]
    /\ copy \in [Call -> Offered \union {None}]
    /\ entry \in [Call -> Offered \union {None}]
    /\ authority \subseteq Tenant
    /\ rows \in [Name -> StoredRow \union {None}]
    /\ answer \in [Call -> {"none", "OK"} \union Code]
    /\ got \in [Call -> Facts \union {None}]
    /\ held \subseteq Call

\* What is registered is what was validated on entry, to the letter: nothing
\* the caller does to its objects while the call is suspended reaches the row.
EntryArgumentsStored ==
    \A n \in Name : rows[n] # None =>
      LET in == entry[rows[n].by]
      IN  /\ in # None /\ Valid(in) /\ in.op = "seed" /\ in.name = n
          /\ rows[n].tenant = in.context.tenant
          /\ rows[n].project = in.context.project
          /\ rows[n].facts = in.facts

\* Tenants stay apart: a row belongs to the tenant its name says, refers only
\* into its own project, and is returned only to that tenant's request.
TenantsApart ==
    /\ \A n \in Name : rows[n] # None =>
         /\ rows[n].tenant = OwnerOf[ProjectOf[n]]
         /\ RefsIn[rows[n].facts] = ProjectOf[n]
    /\ \A c \in Call : got[c] # None =>
         /\ OwnerOf[ProjectOf[entry[c].name]] = entry[c].context.tenant
         /\ rows[entry[c].name].facts = got[c]

\* The time column of a row names the very microsecond its facts name, before
\* 1970 as well: its digits behind the point are those of one second.
InstantExact ==
    \A n \in Name : rows[n] # None =>
      /\ rows[n].createdAt.micro \in 0..(Micros - 1)
      /\ rows[n].createdAt.second * Micros + rows[n].createdAt.micro
           = CreatedAt[rows[n].facts]

\* Nothing is registered or returned for a call during which, from entry to
\* the authorization port's decision, its tenant never held authority.
AuthorityHeld ==
    /\ \A n \in Name : rows[n] # None => rows[n].by \in held
    /\ \A c \in Call : answer[c] \in {"OK", "CONFLICT", "NOT_FOUND"} => c \in held

\* What a call was told of the registry is true of it and stays true, whatever
\* other calls, late commits and callers do; a call that was refused, at the
\* entry, by the port or by the store, has registered nothing and never will.
AnswersHold ==
    /\ \A c \in Call :
         LET row == rows[entry[c].name]
         IN  /\ answer[c] = "OK" =>
                  /\ row # None
                  /\ row.facts = IF entry[c].op = "seed" THEN entry[c].facts ELSE got[c]
             /\ answer[c] = "CONFLICT" => row # None /\ row.facts # entry[c].facts
    /\ \A n \in Name : rows[n] # None => answer[rows[n].by] \in {"OK", "UNAVAILABLE"}

\* A manifest is registered for good: no call changes its columns or takes its
\* name over, by a late commit neither.
RegisteredForGood ==
    [][\A n \in Name : rows[n] # None => rows'[n] = rows[n]]_vars

=============================================================================
