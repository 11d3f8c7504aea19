---------------------------- MODULE PackageScaffold ----------------------------
(***************************************************************************)
(* The package scaffolder (scripts/architecture/scaffold-package.mjs).     *)
(*                                                                         *)
(* Processes run `plan', `apply' and `recover' over one working copy,      *)
(* while people edit the catalog, the policy, the documents and the        *)
(* configuration between any two steps and any process may be killed at    *)
(* any step.  A plan is compiled, checked against the repository again and *)
(* stored; `apply' reads a stored plan, checks it and publishes its files  *)
(* under a journal; `recover' finishes the journal a killed process left.  *)
(*                                                                         *)
(* The compiler of plans and the journalled publication are a library's    *)
(* (Engineering Foundation): they are modelled from how the script uses    *)
(* them and what check-package-scaffolding.mjs observes of them.           *)
(***************************************************************************)
EXTENDS MaterializationPolicy, FiniteSets

CONSTANTS Procs,         \* processes that may run the script
          PlanFiles,     \* paths under .agent-teams-local/scaffolding-plans
          Paths,         \* target paths of packages
          Operations,    \* the number of files a plan publishes
          Catalogs,      \* values the package catalog may be edited to
          Policies,      \* values the materialization policy may be edited to
          Documents,     \* values the documents may be edited to
          Configs,       \* values the scaffolding configuration may be edited to
          MaxEdits,      \* bound: edits of the working copy
          MaxCommands,   \* bound: commands started
          None,          \* no plan, no file, no transaction
          Partial        \* a plan file that is not written to its end

VARIABLES catalog,       \* id -> [role, path, name, owner]
          policy, docs, config,
          broken,        \* something else in the tree fails the topology checks
          files,         \* path -> operation -> absent, foreign, or the id planned
          planFiles,     \* path -> None, Partial, or a plan
          intents,       \* the processes whose intent file exists
          journal,       \* the pending transaction, or None
          proc,          \* the script's local state
          edits, commands

repository == <<catalog, policy, docs, config, broken>>
local == <<planFiles, intents>>
vars == <<repository, files, local, journal, proc, edits, commands>>

Absent == "absent"
Foreign == "foreign"
Successful == {"applied", "already-applied", "failed-recovered"}

Ids == UNION {DOMAIN c : c \in Catalogs}

ASSUME ScaffoldAssumption ==
    /\ Operations \in Nat \ {0}
    /\ MaxEdits \in Nat /\ MaxCommands \in Nat
    /\ {Absent, Foreign} \cap Ids = {}
    /\ None \notin Procs \union Successful \union {Partial, "planned"}
    /\ \A c \in Catalogs : \A id \in DOMAIN c : c[id].path \in Paths

Idle == [pc |-> "idle", command |-> None, id |-> None, file |-> None,
         plan |-> None, outcome |-> None, allowed |-> {}]

At(p, pc) == proc[p].pc = pc
Goto(p, pc) == proc' = [proc EXCEPT ![p].pc = pc]

\* The process ends; its outcome decides the exit code.
Exit(p, outcome) == proc' = [proc EXCEPT ![p].pc = "done", ![p].outcome = outcome]
Throw(p) == Exit(p, "error")

PathExists(path) == \E k \in 1..Operations : files[path][k] # Absent

NotDeferred(pol) == {id \in Ids : ~Deferred(pol, id)}

-----------------------------------------------------------------------------
(* What the script checks.                                                 *)

\* validateRepository: the topology validator in a child process.  Of its
\* rules, the ones that speak of the materialized packages are modelled here.
RepositoryValid ==
    /\ ~broken
    /\ ValidPolicy(policy, DOMAIN catalog, docs)
    /\ \A id \in DOMAIN catalog : PathExists(catalog[id].path) =>
           Accepted(catalog[id].owner, docs) /\ ~Deferred(policy, id)

\* The plan of a package, bound to the authority it is compiled from.  The file
\* of the configuration is part of it, for there may be another one than the
\* canonical one.
PlanOf(cat, documents, cfg, id, source) ==
    [id |-> id, role |-> cat[id].role, path |-> cat[id].path,
     name |-> cat[id].name, owner |-> cat[id].owner,
     source |-> source, composition |-> cfg.composition,
     authority |-> [catalog |-> cat, config |-> cfg, owner |-> documents[cat[id].owner]]]
Compiled(id, source) == PlanOf(catalog, docs, config, id, source)

\* What a plan file may hold once it is written, and a journal.
Plans ==
    UNION {{PlanOf(cat, documents, cfg, id, source) :
                id \in {i \in DOMAIN cat : cat[i].owner \in DOMAIN documents}} :
           cat \in Catalogs, documents \in Documents, cfg \in Configs,
           source \in {"canonical", "alternate"}}
Transactions == [plan : Plans, holder : Procs \union {None}]

ASSUME PlansAssumption == {None, Partial} \cap Plans = {} /\ None \notin Transactions

\* External: the compiler admits the roles of its composition and the owners
\* with an accepted status.
Compilable(id) ==
    /\ id \in DOMAIN catalog
    /\ catalog[id].role \in config.roles
    /\ Accepted(catalog[id].owner, docs)

\* External: the digests a plan was bound to are those of the files now.
AuthorityFresh(plan) ==
    /\ plan.authority.catalog = catalog
    /\ plan.authority.config = config
    /\ plan.owner \in DOMAIN docs
    /\ plan.authority.owner = docs[plan.owner]

MatchesCanonicalComposition(plan) == plan.composition = config.composition

MatchesCanonicalTarget(plan) ==
    /\ plan.role \in config.roles
    /\ plan.path = catalog[plan.id].path
    /\ plan.name = catalog[plan.id].name
    /\ plan.owner = catalog[plan.id].owner

\* Mutant: the deferral is not checked again once there is a plan.
CanonicalPlanOfAnyState(plan) ==
    /\ plan.id \in DOMAIN catalog
    /\ plan.source = "canonical"
    /\ MatchesCanonicalComposition(plan)
    /\ MatchesCanonicalTarget(plan)

\* Mutant: the configuration a plan was compiled from is not compared.
CanonicalPlanOfAnySource(plan) ==
    /\ plan.id \in DOMAIN catalog
    /\ ~Deferred(policy, plan.id)
    /\ MatchesCanonicalTarget(plan)

CanonicalPlan(plan) ==
    /\ plan.id \in DOMAIN catalog
    /\ ~Deferred(policy, plan.id)
    /\ plan.source = "canonical"
    /\ MatchesCanonicalComposition(plan)
    /\ MatchesCanonicalTarget(plan)

-----------------------------------------------------------------------------
(* The command line.                                                       *)

Begin(p, command, id, file, pc) ==
    /\ proc[p].pc \in {"idle", "done"}
    /\ commands < MaxCommands
    /\ commands' = commands + 1
    /\ proc' = [proc EXCEPT ![p] = [Idle EXCEPT !.pc = pc, !.command = command,
                                                !.id = id, !.file = file,
                                                !.allowed = NotDeferred(policy)]]
    /\ UNCHANGED <<repository, files, local, journal, edits>>

StartPlan(p) == \E id \in Ids, file \in PlanFiles : Begin(p, "plan", id, file, "load")
StartApply(p) == \E file \in PlanFiles : Begin(p, "apply", None, file, "policy")
StartRecover(p) == Begin(p, "recover", None, None, "policy")

-----------------------------------------------------------------------------
(* plan.                                                                   *)

\* The catalog and the policy are read and the target is looked for.
LoadTarget(p) ==
    /\ At(p, "load")
    /\ IF /\ proc[p].id \in DOMAIN catalog
          /\ ~Deferred(policy, proc[p].id)
          /\ ~PathExists(catalog[proc[p].id].path)
       THEN Goto(p, "validate") ELSE Throw(p)
    /\ UNCHANGED <<repository, files, local, journal, edits, commands>>

ValidateRepository(p) ==
    /\ At(p, "validate")
    /\ IF RepositoryValid THEN Goto(p, "intent") ELSE Throw(p)
    /\ UNCHANGED <<repository, files, local, journal, edits, commands>>

\* The intent gets a random name: two processes never share one.
WriteIntent(p) ==
    /\ At(p, "intent")
    /\ intents' = intents \union {p}
    /\ Goto(p, "compile")
    /\ UNCHANGED <<repository, files, planFiles, journal, edits, commands>>

\* Mutant: the intent is removed after the compiler answered, not in a finally.
CompileWithoutFinally(p) ==
    /\ At(p, "compile")
    /\ IF Compilable(proc[p].id)
       THEN /\ intents' = intents \ {p}
            /\ proc' = [proc EXCEPT ![p].pc = "assert_plan",
                                    ![p].plan = Compiled(proc[p].id, "canonical"),
                                    ![p].allowed = NotDeferred(policy)]
       ELSE Throw(p) /\ UNCHANGED intents
    /\ UNCHANGED <<repository, files, planFiles, journal, edits, commands>>

\* The library compiles a plan or throws; the intent is removed either way.
CompilePlan(p) ==
    /\ At(p, "compile")
    /\ intents' = intents \ {p}
    /\ IF Compilable(proc[p].id)
       THEN proc' = [proc EXCEPT ![p].pc = "assert_plan",
                                 ![p].plan = Compiled(proc[p].id, "canonical"),
                                 ![p].allowed = NotDeferred(policy)]
       ELSE Throw(p)
    /\ UNCHANGED <<repository, files, planFiles, journal, edits, commands>>

AssertPlan(p) ==
    /\ At(p, "assert_plan")
    /\ IF CanonicalPlan(proc[p].plan) /\ proc[p].plan.id = proc[p].id
       THEN Goto(p, "target") ELSE Throw(p)
    /\ UNCHANGED <<repository, files, local, journal, edits, commands>>

TargetStillFree(p) ==
    /\ At(p, "target")
    /\ IF PathExists(proc[p].plan.path) THEN Throw(p) ELSE Goto(p, "store")
    /\ UNCHANGED <<repository, files, local, journal, edits, commands>>

\* Mutant: the file is opened without the exclusive flag.
OverwritePlan(p) ==
    LET file == proc[p].file IN
    /\ At(p, "store")
    /\ planFiles' = [planFiles EXCEPT ![file] = Partial]
    /\ Goto(p, "fill")
    /\ UNCHANGED <<repository, files, intents, journal, edits, commands>>

\* The file is created exclusively; an existing one is compared.
StorePlan(p) ==
    LET file == proc[p].file IN
    /\ At(p, "store")
    /\ IF planFiles[file] = None
       THEN /\ planFiles' = [planFiles EXCEPT ![file] = Partial]
            /\ Goto(p, "fill")
       ELSE /\ IF planFiles[file] = proc[p].plan THEN Exit(p, "planned") ELSE Throw(p)
            /\ UNCHANGED planFiles
    /\ UNCHANGED <<repository, files, intents, journal, edits, commands>>

FillPlan(p) ==
    /\ At(p, "fill")
    /\ planFiles' = [planFiles EXCEPT ![proc[p].file] = proc[p].plan]
    /\ Exit(p, "planned")
    /\ UNCHANGED <<repository, files, intents, journal, edits, commands>>

-----------------------------------------------------------------------------
(* apply and recover.                                                      *)

\* validateMaterializationPolicy, then the journal: apply looks for a pending
\* transaction first, recover asks for the recovery at once.
ValidatePolicy(p) ==
    /\ At(p, "policy")
    /\ IF ValidPolicy(policy, DOMAIN catalog, docs)
       THEN Goto(p, IF proc[p].command = "apply" THEN "inspect" ELSE "recover")
       ELSE Throw(p)
    /\ UNCHANGED <<repository, files, local, journal, edits, commands>>

InspectTransaction(p) ==
    /\ At(p, "inspect")
    /\ Goto(p, IF journal = None THEN "read" ELSE "recover")
    /\ UNCHANGED <<repository, files, local, journal, edits, commands>>

\* A file that is absent or half written does not parse as a plan.
ReadPlan(p) ==
    LET content == planFiles[proc[p].file] IN
    /\ At(p, "read")
    /\ IF content \in {None, Partial}
       THEN Throw(p)
       ELSE proc' = [proc EXCEPT ![p].pc = "assert_apply", ![p].plan = content,
                                 ![p].allowed = NotDeferred(policy)]
    /\ UNCHANGED <<repository, files, local, journal, edits, commands>>

AssertApply(p) ==
    /\ At(p, "assert_apply")
    /\ IF CanonicalPlan(proc[p].plan) THEN Goto(p, "begin") ELSE Throw(p)
    /\ UNCHANGED <<repository, files, local, journal, edits, commands>>

\* External: one transaction at a time, bound to a fresh authority.  A target
\* whose files are all there is left as it is; other content is refused.
BeginTransaction(p) ==
    LET plan == proc[p].plan
        published == {k \in 1..Operations : files[plan.path][k] = plan.id}
    IN
    /\ At(p, "begin")
    /\ IF journal # None
       THEN Throw(p) /\ UNCHANGED journal
       ELSE IF ~AuthorityFresh(plan)
       THEN Exit(p, "authority-stale") /\ UNCHANGED journal
       ELSE IF published = 1..Operations
       THEN Exit(p, "already-applied") /\ UNCHANGED journal
       ELSE IF PathExists(plan.path)
       THEN Exit(p, "recovery-required") /\ UNCHANGED journal
       ELSE /\ journal' = [plan |-> plan, holder |-> p]
            /\ Goto(p, "publish")
    /\ UNCHANGED <<repository, files, local, edits, commands>>

\* External: the recovery takes a journal nobody holds, of this script's
\* scope, whose authority is fresh and whose files are the plan's so far.
Recover(p) ==
    /\ At(p, "recover")
    /\ IF journal = None
       THEN IF proc[p].command = "apply" THEN Goto(p, "read") /\ UNCHANGED journal
            ELSE Exit(p, "no-pending-transaction") /\ UNCHANGED journal
       ELSE IF journal.holder # None \/ journal.plan.source # "canonical"
       THEN Throw(p) /\ UNCHANGED journal
       ELSE IF \/ ~AuthorityFresh(journal.plan)
               \/ \E k \in 1..Operations :
                      files[journal.plan.path][k] \notin {Absent, journal.plan.id}
       THEN Exit(p, "recovery-required") /\ UNCHANGED journal
       ELSE /\ journal' = [journal EXCEPT !.holder = p]
            /\ Goto(p, "finish")
    /\ UNCHANGED <<repository, files, local, edits, commands>>

\* External: the operations are published in order.
Publish(p) ==
    LET plan == journal.plan
        missing == {k \in 1..Operations : files[plan.path][k] = Absent}
    IN
    /\ proc[p].pc \in {"publish", "finish"}
    /\ missing # {}
    /\ \E k \in missing :
           /\ \A j \in missing : k <= j
           /\ files' = [files EXCEPT ![plan.path][k] = plan.id]
    /\ UNCHANGED <<repository, local, journal, proc, edits, commands>>

Finalize(p) ==
    /\ proc[p].pc \in {"publish", "finish"}
    /\ \A k \in 1..Operations : files[journal.plan.path][k] # Absent
    /\ journal' = None
    /\ Exit(p, IF At(p, "publish") THEN "applied" ELSE "failed-recovered")
    /\ UNCHANGED <<repository, files, local, edits, commands>>

-----------------------------------------------------------------------------
(* The rest of the world.                                                  *)

\* A process is killed between two of its steps; it does not come back.
Kill(p) ==
    /\ proc[p].pc \notin {"idle", "done", "killed"}
    /\ edits < MaxEdits
    /\ edits' = edits + 1
    /\ Goto(p, "killed")
    /\ journal' = IF journal # None /\ journal.holder = p
                  THEN [journal EXCEPT !.holder = None] ELSE journal
    /\ UNCHANGED <<repository, files, local, commands>>

Edit ==
    /\ edits < MaxEdits
    /\ edits' = edits + 1
    /\ \/ catalog' \in Catalogs /\ UNCHANGED <<docs, config, broken>>
       \/ docs' \in Documents /\ UNCHANGED <<catalog, config, broken>>
       \/ config' \in Configs /\ UNCHANGED <<catalog, docs, broken>>
       \/ broken' = ~broken /\ UNCHANGED <<catalog, docs, config>>
    /\ UNCHANGED <<policy, files, local, journal, proc, commands>>

EditPolicy ==
    /\ edits < MaxEdits
    /\ edits' = edits + 1
    /\ policy' \in Policies
    /\ proc' = [p \in Procs |->
                  [proc[p] EXCEPT !.allowed = @ \union NotDeferred(policy')]]
    /\ UNCHANGED <<catalog, docs, config, broken, files, local, journal, commands>>

\* Somebody writes into the target, outside of any plan.  What the library does
\* about a file that turns up in the middle of a publication is not observed.
WriteForeign ==
    /\ edits < MaxEdits
    /\ journal # None => journal.holder = None
    /\ edits' = edits + 1
    /\ \E path \in Paths, k \in 1..Operations :
           files[path][k] = Absent /\ files' = [files EXCEPT ![path][k] = Foreign]
    /\ UNCHANGED <<repository, local, journal, proc, commands>>

\* The library compiled a plan from another configuration file.
CompileElsewhere ==
    /\ edits < MaxEdits
    /\ edits' = edits + 1
    /\ \E file \in PlanFiles, id \in Ids :
           /\ planFiles[file] = None
           /\ Compilable(id)
           /\ planFiles' = [planFiles EXCEPT ![file] = Compiled(id, "alternate")]
    /\ UNCHANGED <<repository, files, intents, journal, proc, commands>>

\* ... and published it by itself, to be killed at once.
PublishElsewhere ==
    /\ edits < MaxEdits
    /\ edits' = edits + 1
    /\ journal = None
    /\ \E file \in PlanFiles :
           /\ planFiles[file] \notin {None, Partial}
           /\ planFiles[file].source = "alternate"
           /\ AuthorityFresh(planFiles[file])
           /\ ~PathExists(planFiles[file].path)
           /\ journal' = [plan |-> planFiles[file], holder |-> None]
    /\ UNCHANGED <<repository, files, local, proc, commands>>

-----------------------------------------------------------------------------
Init ==
    /\ catalog \in Catalogs /\ docs \in Documents /\ config \in Configs
    /\ policy \in Policies /\ ValidPolicy(policy, DOMAIN catalog, docs)
    /\ broken = FALSE
    /\ files = [path \in Paths |-> [k \in 1..Operations |-> Absent]]
    /\ planFiles = [file \in PlanFiles |-> None]
    /\ intents = {} /\ journal = None
    /\ proc = [p \in Procs |-> Idle]
    /\ edits = 0 /\ commands = 0

PlanStep(p) == \/ StartPlan(p) \/ LoadTarget(p) \/ ValidateRepository(p) \/ WriteIntent(p)
               \/ CompilePlan(p) \/ AssertPlan(p) \/ TargetStillFree(p)
               \/ StorePlan(p) \/ FillPlan(p)

ApplyStep(p) == \/ StartApply(p) \/ StartRecover(p) \/ ValidatePolicy(p)
                \/ InspectTransaction(p) \/ ReadPlan(p) \/ AssertApply(p)
                \/ BeginTransaction(p) \/ Recover(p) \/ Publish(p) \/ Finalize(p)

Environment == Edit \/ EditPolicy \/ WriteForeign \/ CompileElsewhere \/ PublishElsewhere

Next == Environment \/ \E p \in Procs : PlanStep(p) \/ ApplyStep(p) \/ Kill(p)

Spec == Init /\ [][Next]_vars

-----------------------------------------------------------------------------
(* Properties.                                                             *)

\* A plan is stored, and a transaction is begun, only for a package that was
\* not deferred at some moment since its plan was compiled, or read from its
\* file: a policy changed in the course of a command is noticed.
DeferralNoticed ==
    [][/\ \A f \in PlanFiles :
              planFiles'[f] \notin {planFiles[f], None, Partial}
                  => \/ planFiles'[f].source = "alternate"
                     \/ \E p \in Procs : /\ proc[p].plan = planFiles'[f]
                                         /\ planFiles'[f].id \in proc[p].allowed
       /\ journal = None /\ journal' # None
              => \/ journal'.holder = None
                 \/ journal'.plan.id \in proc[journal'.holder].allowed]_vars

\* Whatever plans lie in the directory and whatever journal was left, a file
\* is published only from a plan of the canonical configuration.
CanonicalPublished ==
    [][\A path \in Paths, k \in 1..Operations :
           files'[path][k] \in Ids \ {files[path][k]}
               => journal # None /\ journal.plan.source = "canonical"]_vars

\* The path a planner reports as saved goes on holding its plan, whatever other
\* planners are told to save there.
PlanFilesKept ==
    \A p \in Procs :
        proc[p].command = "plan" /\ proc[p].outcome = "planned"
            => planFiles[proc[p].file] = proc[p].plan

\* A command that ends, in success or in error, leaves no intent behind.
IntentsRemoved ==
    \A p \in Procs : proc[p].pc = "done" => p \notin intents

\* "A deferred package cannot create a plan or filesystem state." (ADR-0097):
\* a command during all of which a package is deferred publishes no file of it.
DeferredCreatesNothing ==
    [][\A path \in Paths, k \in 1..Operations :
           files'[path][k] \in Ids \ {files[path][k]}
               => files'[path][k] \in proc[journal.holder].allowed]_vars

\* A package is published whole: where a file of a package lies and no
\* transaction is pending, all of its files lie, whoever was killed in the middle,
\* whoever finished it, and whatever was written there by others
\* (check-package-scaffolding.mjs:400-480: what a killed process published in part
\* is finished or refused).
PackagesWhole ==
    \A path \in Paths :
        \/ \A k \in 1..Operations : files[path][k] \notin Ids
        \/ \E id \in Ids : \A k \in 1..Operations : files[path][k] = id
        \/ journal # None /\ journal.plan.path = path

\* `applied' and `already-applied' are true, and stay so: the target of the plan
\* holds every file of the package and nothing else (scaffold-package.mjs:
\* applyCommand).
AppliedWhole ==
    \A p \in Procs :
        proc[p].outcome \in {"applied", "already-applied"} =>
            \A k \in 1..Operations :
                files[proc[p].plan.path][k] = proc[p].plan.id
=============================================================================
