------------------------- MODULE PackageScaffoldProofs -------------------------
(***************************************************************************)
(* For any number of processes, edits and commands: what a planner leaves  *)
(* behind is the plan it said it saved and no intent, and what is stored   *)
(* or published is canonical and was not deferred all along.               *)
(***************************************************************************)
EXTENDS PackageScaffold, TLAPS

\* The steps at which a process knows its file, and those at which it holds
\* the plan it compiled.
Holding == {"assert_plan", "target", "store", "fill"}
Planning == {"load", "validate", "intent", "compile"} \union Holding

IsContent(x) == x \notin {None, Partial}

\* Of one process with local state s: an intent belongs to a process that is
\* compiling, a file half written to one that is filling it, and what is said
\* to be saved is there.
Consistent(p, s) ==
    /\ DOMAIN s = DOMAIN Idle
    /\ p \in intents => s.pc \in {"compile", "killed"}
    /\ s.pc \in Planning => s.file \in PlanFiles
    /\ s.pc \in Holding => IsContent(s.plan)
    /\ s.pc = "fill" => planFiles[s.file] = Partial
    /\ s.outcome = "planned" => s.pc = "done"
    /\ s.outcome = "planned" /\ s.command = "plan" =>
           /\ s.file \in PlanFiles
           /\ IsContent(s.plan)
           /\ planFiles[s.file] = s.plan

OneWriter == \A p, q \in Procs : At(p, "fill") /\ At(q, "fill") /\ p # q
                                     => proc[p].file # proc[q].file

IInv ==
    /\ DOMAIN proc = Procs /\ DOMAIN planFiles = PlanFiles
    /\ catalog \in Catalogs /\ docs \in Documents /\ config \in Configs
    /\ \A p \in Procs : Consistent(p, proc[p])
    /\ OneWriter

USE DEF Begin, Exit, Throw, Goto, At, local, repository

LEMMA InitConsistent == Init => IInv
  BY ScaffoldAssumption
  DEF Init, IInv, Consistent, OneWriter, Idle, Planning, Holding

\* A step of one process that touches neither plan files nor intents keeps the
\* invariant when it leaves that process consistent and does not make it a
\* writer.
LEMMA OneProcess ==
  ASSUME IInv, UNCHANGED <<planFiles, intents, catalog, docs, config>>,
         NEW p \in Procs, NEW s,
         proc' = [proc EXCEPT ![p] = s], Consistent(p, s), s.pc # "fill"
  PROVE  IInv'
  BY DEF IInv, Consistent, OneWriter, IsContent

\* So does one that goes on to a step that holds nothing new, or ends.
LEMMA GoOn ==
  ASSUME IInv, UNCHANGED <<planFiles, intents, catalog, docs, config>>,
         NEW p \in Procs, NEW pc \in {"validate", "intent", "inspect", "read", "recover",
                                      "begin", "publish", "finish", "target", "store"},
         proc' = [proc EXCEPT ![p].pc = pc],
         p \notin intents, proc[p].outcome # "planned",
         pc \in Planning => proc[p].pc \in Planning,
         pc \in Holding => proc[p].pc \in Holding
  PROVE  IInv'
  <1>1. Consistent(p, [proc[p] EXCEPT !.pc = pc])
    BY DEF IInv, Consistent, Idle, Planning, Holding
  <1>2. [proc[p] EXCEPT !.pc = pc].pc = pc BY DEF IInv, Consistent, Idle
  <1>3. QED BY <1>1, <1>2, OneProcess

LEMMA Ends ==
  ASSUME IInv, UNCHANGED <<planFiles, intents, catalog, docs, config>>,
         NEW p \in Procs, NEW outcome, Exit(p, outcome), outcome # "planned",
         p \notin intents
  PROVE  IInv'
  <1> DEFINE s == [[proc[p] EXCEPT !.pc = "done"] EXCEPT !.outcome = outcome]
  <1>1. Consistent(p, s) /\ s.pc = "done"
    BY DEF IInv, Consistent, Idle, Planning, Holding
  <1>2. proc' = [proc EXCEPT ![p] = s] BY DEF IInv
  <1>3. QED BY <1>1, <1>2, OneProcess

\* Where the steps of a command find their process, none of them holds an
\* intent or has reported a plan.
LEMMA Running ==
  ASSUME IInv, NEW p \in Procs, proc[p].pc \notin {"done", "compile", "killed"}
  PROVE  p \notin intents /\ proc[p].outcome # "planned"
  BY DEF IInv, Consistent

LEMMA BeginKeeps ==
  ASSUME IInv, NEW p \in Procs, NEW command, NEW id, NEW file,
         NEW pc \in {"load", "policy"}, Begin(p, command, id, file, pc),
         pc = "load" => file \in PlanFiles
  PROVE  IInv'
  <1> DEFINE s == [Idle EXCEPT !.pc = pc, !.command = command, !.id = id,
                               !.file = file, !.allowed = NotDeferred(policy)]
  <1>1. p \notin intents BY DEF IInv, Consistent
  <1>2. s.outcome = None /\ s.pc = pc /\ s.file = file /\ DOMAIN s = DOMAIN Idle
    BY DEF Idle
  <1>3. proc' = [proc EXCEPT ![p] = s] OBVIOUS
  <1> HIDE DEF s
  <1>4. Consistent(p, s)
    BY <1>1, <1>2, ScaffoldAssumption DEF Consistent, Planning, Holding
  <1>5. QED BY <1>2, <1>3, <1>4, OneProcess

LEMMA WriteIntentKeeps ==
  ASSUME IInv, NEW p \in Procs, WriteIntent(p)
  PROVE  IInv'
  <1>1. proc[p].outcome # "planned" BY Running DEF WriteIntent
  <1>2. QED
    BY <1>1 DEF WriteIntent, IInv, Consistent, OneWriter, Idle, Planning, Holding

\* What the compiler makes of the repository is a plan.
LEMMA CompilesPlans ==
  ASSUME IInv, NEW id, Compilable(id), NEW source \in {"canonical", "alternate"}
  PROVE  Compiled(id, source) \in Plans
  <1>1. /\ catalog \in Catalogs /\ docs \in Documents /\ config \in Configs
        /\ id \in {i \in DOMAIN catalog : catalog[i].owner \in DOMAIN docs}
    BY DEF IInv, Compilable, Accepted
  <1> DEFINE of(cat, documents, cfg, src) ==
               {PlanOf(cat, documents, cfg, i, src) :
                    i \in {j \in DOMAIN cat : cat[j].owner \in DOMAIN documents}}
  <1>2. Compiled(id, source) \in of(catalog, docs, config, source)
    BY <1>1 DEF Compiled
  <1>3. Plans = UNION {of(cat, documents, cfg, src) :
                         cat \in Catalogs, documents \in Documents, cfg \in Configs,
                         src \in {"canonical", "alternate"}}
    BY DEF Plans
  <1> HIDE DEF of
  <1>4. of(catalog, docs, config, source) \subseteq Plans
    BY <1>1, <1>3
  <1>5. QED BY <1>2, <1>4

LEMMA CompilePlanKeeps ==
  ASSUME IInv, NEW p \in Procs, CompilePlan(p)
  PROVE  IInv'
  <1> DEFINE plan == Compiled(proc[p].id, "canonical")
             allowed == NotDeferred(policy)
  <1> USE DEF CompilePlan
  <1>1. CASE Compilable(proc[p].id)
    <2>1. IsContent(plan)
      BY <1>1, CompilesPlans, PlansAssumption DEF IsContent
    <2>2. proc' = [proc EXCEPT ![p].pc = "assert_plan", ![p].plan = plan,
                               ![p].allowed = allowed]
      BY <1>1
    <2> HIDE DEF plan, allowed
    <2>3. QED
      BY <2>1, <2>2 DEF IInv, Consistent, OneWriter, Idle, Planning, Holding, IsContent
  <1>2. CASE ~Compilable(proc[p].id)
    BY <1>2 DEF IInv, Consistent, OneWriter, Idle, Planning, Holding
  <1>3. QED BY <1>1, <1>2

LEMMA StorePlanKeeps ==
  ASSUME IInv, NEW p \in Procs, StorePlan(p)
  PROVE  IInv'
  <1> DEFINE file == proc[p].file
  <1> USE DEF StorePlan
  <1>1. /\ p \notin intents /\ proc[p].outcome # "planned"
        /\ file \in PlanFiles /\ IsContent(proc[p].plan) /\ proc[p].pc = "store"
    BY Running DEF IInv, Consistent, Planning, Holding
  <1>2. CASE planFiles[file] = None
    <2>1. \A q \in Procs : At(q, "fill") => proc[q].file # file
      BY <1>2, ScaffoldAssumption DEF IInv, Consistent
    <2>2. QED
      BY <1>1, <1>2, <2>1 DEF IInv, Consistent, OneWriter, Idle, Planning, Holding, IsContent
  <1>3. CASE planFiles[file] # None /\ planFiles[file] = proc[p].plan
    BY <1>1, <1>3 DEF IInv, Consistent, OneWriter, Idle, Planning, Holding
  <1>4. CASE planFiles[file] # None /\ planFiles[file] # proc[p].plan
    BY <1>1, <1>4, Ends
  <1>5. QED BY <1>2, <1>3, <1>4

LEMMA FillPlanKeeps ==
  ASSUME IInv, NEW p \in Procs, FillPlan(p)
  PROVE  IInv'
  <1> DEFINE file == proc[p].file
  <1> USE DEF FillPlan
  <1>1. /\ p \notin intents /\ planFiles[file] = Partial
        /\ file \in PlanFiles /\ IsContent(proc[p].plan)
    BY DEF IInv, Consistent, Planning, Holding
  <1>2. \A q \in Procs : At(q, "fill") /\ q # p => proc[q].file # file
    BY DEF IInv, OneWriter
  <1>3. QED
    BY <1>1, <1>2 DEF IInv, Consistent, OneWriter, Idle, Planning, Holding, IsContent

LEMMA PlanStepKeeps ==
  ASSUME IInv, NEW p \in Procs, PlanStep(p)
  PROVE  IInv'
  <1>1. CASE StartPlan(p)
    <2> HIDE DEF Begin
    <2>1. PICK id \in Ids, file \in PlanFiles : Begin(p, "plan", id, file, "load")
      BY <1>1 DEF StartPlan
    <2>2. QED BY <2>1, BeginKeeps
  <1>2. CASE LoadTarget(p)
    BY <1>2, Running, GoOn, Ends DEF LoadTarget, Planning, Holding
  <1>3. CASE ValidateRepository(p)
    BY <1>3, Running, GoOn, Ends DEF ValidateRepository, Planning, Holding
  <1>4. CASE WriteIntent(p) BY <1>4, WriteIntentKeeps
  <1>5. CASE CompilePlan(p) BY <1>5, CompilePlanKeeps
  <1>6. CASE AssertPlan(p)
    BY <1>6, Running, GoOn, Ends DEF AssertPlan, Planning, Holding
  <1>7. CASE TargetStillFree(p)
    BY <1>7, Running, GoOn, Ends DEF TargetStillFree, Planning, Holding
  <1>8. CASE StorePlan(p) BY <1>8, StorePlanKeeps
  <1>9. CASE FillPlan(p) BY <1>9, FillPlanKeeps
  <1>10. QED
    BY <1>1, <1>2, <1>3, <1>4, <1>5, <1>6, <1>7, <1>8, <1>9 DEF PlanStep

LEMMA ReadPlanKeeps ==
  ASSUME IInv, NEW p \in Procs, ReadPlan(p)
  PROVE  IInv'
  <1> DEFINE content == planFiles[proc[p].file]
             allowed == NotDeferred(policy)
  <1> USE DEF ReadPlan
  <1>1. p \notin intents /\ proc[p].outcome # "planned" BY Running
  <1>2. CASE content \in {None, Partial} BY <1>1, <1>2, Ends
  <1>3. CASE content \notin {None, Partial}
    <2> DEFINE s == [proc[p] EXCEPT !.pc = "assert_apply", !.plan = content,
                                    !.allowed = allowed]
    <2> HIDE DEF content, allowed
    <2>1. Consistent(p, s) /\ s.pc = "assert_apply"
      BY <1>1 DEF IInv, Consistent, Idle, Planning, Holding
    <2>2. proc' = [proc EXCEPT ![p] = s] BY <1>3 DEF IInv, content, allowed
    <2>3. QED BY <2>1, <2>2, OneProcess
  <1>4. QED BY <1>2, <1>3

LEMMA ApplyStepKeeps ==
  ASSUME IInv, NEW p \in Procs, ApplyStep(p)
  PROVE  IInv'
  <1> USE DEF Planning, Holding
  <1>1. CASE StartApply(p)
    <2> HIDE DEF Begin
    <2>1. PICK file \in PlanFiles : Begin(p, "apply", None, file, "policy")
      BY <1>1 DEF StartApply
    <2>2. QED BY <2>1, BeginKeeps
  <1>2. CASE StartRecover(p) BY <1>2, BeginKeeps DEF StartRecover
  <1>3. CASE ValidatePolicy(p) BY <1>3, Running, GoOn, Ends DEF ValidatePolicy
  <1>4. CASE InspectTransaction(p) BY <1>4, Running, GoOn DEF InspectTransaction
  <1>5. CASE ReadPlan(p) BY <1>5, ReadPlanKeeps
  <1>6. CASE AssertApply(p) BY <1>6, Running, GoOn, Ends DEF AssertApply
  <1>7. CASE BeginTransaction(p) BY <1>7, Running, GoOn, Ends DEF BeginTransaction
  <1>8. CASE Recover(p) BY <1>8, Running, GoOn, Ends DEF Recover
  <1>9. CASE Publish(p)
    BY <1>9 DEF Publish, IInv, Consistent, OneWriter
  <1>10. CASE Finalize(p) BY <1>10, Running, Ends DEF Finalize
  <1>11. QED
    BY <1>1, <1>2, <1>3, <1>4, <1>5, <1>6, <1>7, <1>8, <1>9, <1>10 DEF ApplyStep

LEMMA EnvironmentKeeps ==
  ASSUME IInv, Environment
  PROVE  IInv'
  <1>1. CASE Edit BY <1>1 DEF Edit, IInv, Consistent, OneWriter
  <1>2. CASE EditPolicy
    <2> DEFINE allowed(p) == proc[p].allowed \union NotDeferred(policy')
    <2>1. proc' = [p \in Procs |-> [proc[p] EXCEPT !.allowed = allowed(p)]]
      BY <1>2 DEF EditPolicy
    <2> HIDE DEF allowed
    <2>2. QED BY <1>2, <2>1 DEF EditPolicy, IInv, Consistent, OneWriter, Idle
  <1>3. CASE WriteForeign BY <1>3 DEF WriteForeign, IInv, Consistent, OneWriter
  <1>4. CASE CompileElsewhere
    <2>1. PICK file \in PlanFiles, id \in Ids :
            /\ planFiles[file] = None
            /\ planFiles' = [planFiles EXCEPT ![file] = Compiled(id, "alternate")]
      BY <1>4 DEF CompileElsewhere
    <2> DEFINE plan == Compiled(id, "alternate")
    <2> HIDE DEF plan
    <2>2. planFiles' = [planFiles EXCEPT ![file] = plan] BY <2>1 DEF plan
    <2>3. QED
      BY <1>4, <2>1, <2>2, ScaffoldAssumption
      DEF CompileElsewhere, IInv, Consistent, OneWriter, IsContent
  <1>5. CASE PublishElsewhere BY <1>5 DEF PublishElsewhere, IInv, Consistent, OneWriter
  <1>6. QED BY <1>1, <1>2, <1>3, <1>4, <1>5 DEF Environment

LEMMA KillKeeps ==
  ASSUME IInv, NEW p \in Procs, Kill(p)
  PROVE  IInv'
  BY DEF Kill, IInv, Consistent, OneWriter, Idle, Planning, Holding

THEOREM PlannersConsistent == Spec => []IInv
  <1>1. IInv /\ [Next]_vars => IInv'
    <2> SUFFICES ASSUME IInv, [Next]_vars PROVE IInv'
      OBVIOUS
    <2>1. CASE Environment BY <2>1, EnvironmentKeeps
    <2>2. CASE \E p \in Procs : PlanStep(p) BY <2>2, PlanStepKeeps
    <2>3. CASE \E p \in Procs : ApplyStep(p) BY <2>3, ApplyStepKeeps
    <2>4. CASE \E p \in Procs : Kill(p) BY <2>4, KillKeeps
    <2>5. CASE UNCHANGED vars BY <2>5 DEF vars, IInv, Consistent, OneWriter
    <2>6. QED BY <2>1, <2>2, <2>3, <2>4, <2>5 DEF Next
  <1>2. QED BY <1>1, InitConsistent, PTL DEF Spec

\* The plan a planner reported goes on being in the file it named: files are
\* created exclusively, and each is filled by the process that created it
\* (scaffold-package.mjs: storePlan).
THEOREM PlannersKeepTheirPlans == Spec => []PlanFilesKept
  <1>1. IInv => PlanFilesKept BY DEF IInv, Consistent, PlanFilesKept
  <1>2. QED BY <1>1, PlannersConsistent, PTL

\* The intent of a planner is gone when its command ends, whatever the library
\* answered (scaffold-package.mjs: compilePlan).
THEOREM PlannersRemoveTheirIntents == Spec => []IntentsRemoved
  <1>1. IInv => IntentsRemoved BY DEF IInv, Consistent, IntentsRemoved
  <1>2. QED BY <1>1, PlannersConsistent, PTL

-----------------------------------------------------------------------------
(* What is stored and published.                                           *)

\* Of one process with local state s: where it holds a plan, and what its
\* checks have found out about it since.
Checked(p, s) ==
    /\ s.pc # "idle" => NotDeferred(policy) \subseteq s.allowed
    /\ s.pc # "idle" /\ s.command = "apply" => s.file \in PlanFiles
    /\ s.pc \in {"inspect", "read"} => s.command = "apply"
    /\ s.pc \in Holding \union {"assert_apply", "begin"} => s.plan \in Plans
    /\ s.pc \in {"target", "store", "fill", "begin"} => s.plan.id \in s.allowed
    /\ s.pc = "begin" => s.plan.source = "canonical"
    /\ s.pc \in {"publish", "finish"} =>
           journal # None /\ journal.holder = p /\ journal.plan.source = "canonical"

JInv ==
    /\ \A f \in PlanFiles : planFiles[f] \in Plans \union {None, Partial}
    /\ journal \in Transactions \union {None}
    /\ DOMAIN files = Paths /\ \A path \in Paths : DOMAIN files[path] = 1..Operations
    /\ \A p \in Procs : Checked(p, proc[p])

LEMMA InitChecked == Init => JInv
  BY DEF Init, JInv, Checked, Idle, Holding

\* A package the script found not deferred is one of those allowed.
LEMMA FoundAllowed ==
  ASSUME IInv, NEW plan, CanonicalPlan(plan), NEW allowed,
         NotDeferred(policy) \subseteq allowed
  PROVE  plan.id \in allowed /\ plan.source = "canonical"
  BY DEF IInv, CanonicalPlan, NotDeferred, Ids

LEMMA OneProcessChecked ==
  ASSUME IInv, JInv, UNCHANGED <<planFiles, journal, policy, files>>,
         NEW p \in Procs, NEW s,
         proc' = [proc EXCEPT ![p] = s], Checked(p, s)
  PROVE  JInv'
  BY DEF IInv, JInv, Checked, NotDeferred

LEMMA GoOnChecked ==
  ASSUME IInv, JInv, UNCHANGED <<planFiles, journal, policy, files>>,
         NEW p \in Procs, NEW pc, proc' = [proc EXCEPT ![p].pc = pc],
         Checked(p, [proc[p] EXCEPT !.pc = pc])
  PROVE  JInv'
  BY OneProcessChecked

LEMMA EndsChecked ==
  ASSUME IInv, JInv, UNCHANGED <<planFiles, journal, policy, files>>,
         NEW p \in Procs, NEW outcome, Exit(p, outcome), proc[p].pc # "idle"
  PROVE  JInv'
  <1> DEFINE s == [[proc[p] EXCEPT !.pc = "done"] EXCEPT !.outcome = outcome]
  <1>1. Checked(p, s) BY DEF IInv, Consistent, JInv, Checked, Idle, Holding
  <1>2. proc' = [proc EXCEPT ![p] = s] BY DEF IInv
  <1>3. QED BY <1>1, <1>2, OneProcessChecked

LEMMA BeginChecked ==
  ASSUME IInv, JInv, NEW p \in Procs, NEW command, NEW id, NEW file,
         NEW pc \in {"load", "policy"}, Begin(p, command, id, file, pc),
         command = "apply" => file \in PlanFiles
  PROVE  JInv'
  <1> DEFINE s == [Idle EXCEPT !.pc = pc, !.command = command, !.id = id,
                               !.file = file, !.allowed = NotDeferred(policy)]
  <1>1. s.allowed = NotDeferred(policy) /\ s.pc = pc /\ s.file = file /\ s.command = command
    BY DEF Idle
  <1>2. proc' = [proc EXCEPT ![p] = s] OBVIOUS
  <1> HIDE DEF s
  <1>3. Checked(p, s) BY <1>1 DEF Checked, Holding
  <1>4. QED BY <1>2, <1>3, OneProcessChecked

LEMMA PlanStepChecked ==
  ASSUME IInv, JInv, NEW p \in Procs, PlanStep(p)
  PROVE  JInv'
  <1> USE DEF IInv, Consistent, JInv, Checked, Idle, Holding
  <1>1. CASE StartPlan(p)
    <2> HIDE DEF Begin, IInv, JInv
    <2>1. PICK id \in Ids, file \in PlanFiles : Begin(p, "plan", id, file, "load")
      BY <1>1 DEF StartPlan
    <2>2. QED BY <2>1, BeginChecked
  <1>2. CASE LoadTarget(p)
    BY <1>2, GoOnChecked, EndsChecked DEF LoadTarget
  <1>3. CASE ValidateRepository(p)
    BY <1>3, GoOnChecked, EndsChecked DEF ValidateRepository
  <1>4. CASE WriteIntent(p) BY <1>4, GoOnChecked DEF WriteIntent
  <1>5. CASE CompilePlan(p)
    <2> DEFINE plan == Compiled(proc[p].id, "canonical")
               allowed == NotDeferred(policy)
               s == [proc[p] EXCEPT !.pc = "assert_plan", !.plan = plan, !.allowed = allowed]
    <2>1. CASE Compilable(proc[p].id)
      <3>1. plan \in Plans BY <2>1, CompilesPlans
      <3>2. proc' = [proc EXCEPT ![p] = s] BY <1>5, <2>1 DEF CompilePlan
      <3> HIDE DEF plan
      <3>3. Checked(p, s) BY <1>5, <3>1 DEF CompilePlan
      <3>4. QED BY <1>5, <3>2, <3>3, OneProcessChecked DEF CompilePlan
    <2>2. CASE ~Compilable(proc[p].id)
      BY <1>5, <2>2, EndsChecked DEF CompilePlan
    <2>3. QED BY <2>1, <2>2
  <1>6. CASE AssertPlan(p)
    <2>1. CASE CanonicalPlan(proc[p].plan) /\ proc[p].plan.id = proc[p].id
      <3>1. proc[p].plan.id \in proc[p].allowed
        BY <1>6, <2>1, FoundAllowed DEF AssertPlan
      <3>2. QED BY <1>6, <2>1, <3>1, GoOnChecked DEF AssertPlan
    <2>2. CASE ~(CanonicalPlan(proc[p].plan) /\ proc[p].plan.id = proc[p].id)
      BY <1>6, <2>2, EndsChecked DEF AssertPlan
    <2>3. QED BY <2>1, <2>2
  <1>7. CASE TargetStillFree(p)
    BY <1>7, GoOnChecked, EndsChecked DEF TargetStillFree
  <1>8. CASE StorePlan(p) BY <1>8 DEF StorePlan
  <1>9. CASE FillPlan(p) BY <1>9 DEF FillPlan
  <1>10. QED
    BY <1>1, <1>2, <1>3, <1>4, <1>5, <1>6, <1>7, <1>8, <1>9 DEF PlanStep

\* A process takes a journal that nobody holds, with a canonical plan.
LEMMA TakesJournal ==
  ASSUME IInv, JInv, UNCHANGED <<planFiles, policy, files>>,
         NEW p \in Procs, NEW plan \in Plans, plan.source = "canonical",
         journal' = [plan |-> plan, holder |-> p],
         journal = None \/ journal.holder = None, None \notin Procs,
         NEW pc \in {"publish", "finish"}, proc[p].pc \in {"begin", "recover"},
         proc' = [proc EXCEPT ![p].pc = pc]
  PROVE  JInv'
  <1>1. journal' \in Transactions /\ journal' # None
    BY PlansAssumption DEF Transactions
  <1>2. journal'.plan = plan /\ journal'.holder = p OBVIOUS
  <1>3. \A q \in Procs \ {p} : proc[q].pc \notin {"publish", "finish"}
    BY DEF JInv, Checked
  <1>4. ASSUME NEW q \in Procs \ {p} PROVE Checked(q, proc[q])'
    <2>1. proc'[q] = proc[q] BY DEF IInv
    <2>2. QED BY <1>3, <2>1 DEF JInv, Checked, NotDeferred
  <1>5. Checked(p, proc[p])'
    <2> DEFINE s == [proc[p] EXCEPT !.pc = pc]
    <2>1. /\ proc'[p] = s /\ s.pc = pc /\ s.allowed = proc[p].allowed
          /\ s.file = proc[p].file /\ s.command = proc[p].command
      BY DEF IInv, Consistent, Idle
    <2> HIDE DEF s
    <2>2. QED BY <1>1, <1>2, <2>1 DEF JInv, Checked, NotDeferred, Holding
  <1>6. QED BY <1>1, <1>4, <1>5 DEF JInv

LEMMA RecoverChecked ==
  ASSUME IInv, JInv, NEW p \in Procs, Recover(p)
  PROVE  JInv'
  <1> USE DEF Recover
  <1>1. CASE /\ journal # None /\ journal.holder = None
             /\ journal.plan.source = "canonical"
             /\ journal' = [journal EXCEPT !.holder = p]
             /\ proc' = [proc EXCEPT ![p].pc = "finish"]
    <2>1. journal \in Transactions BY <1>1 DEF JInv
    <2>2. journal' = [plan |-> journal.plan, holder |-> p] /\ journal.plan \in Plans
      BY <1>1, <2>1 DEF Transactions
    <2>3. QED BY <1>1, <2>2, TakesJournal, ScaffoldAssumption
  <1>2. CASE journal' = journal /\ proc' = [proc EXCEPT ![p].pc = "read"]
                /\ proc[p].command = "apply"
    BY <1>2, GoOnChecked DEF IInv, Consistent, JInv, Checked, Idle, Holding
  <1>3. CASE journal' = journal /\ \E outcome : Exit(p, outcome)
    BY <1>3, EndsChecked
  <1>4. \/ /\ journal # None /\ journal.holder = None
           /\ journal.plan.source = "canonical"
           /\ journal' = [journal EXCEPT !.holder = p]
           /\ proc' = [proc EXCEPT ![p].pc = "finish"]
        \/ /\ journal' = journal /\ proc' = [proc EXCEPT ![p].pc = "read"]
           /\ proc[p].command = "apply"
        \/ journal' = journal /\ \E outcome : Exit(p, outcome)
    <2> HIDE DEF Exit
    <2>1. QED OBVIOUS
  <1>5. QED BY <1>1, <1>2, <1>3, <1>4

LEMMA BeginTransactionChecked ==
  ASSUME IInv, JInv, NEW p \in Procs, BeginTransaction(p)
  PROVE  JInv'
  <1> USE DEF BeginTransaction
  <1>1. CASE journal' = journal /\ \E outcome : Exit(p, outcome)
    BY <1>1, EndsChecked
  <1>2. CASE /\ journal = None /\ journal' = [plan |-> proc[p].plan, holder |-> p]
             /\ proc' = [proc EXCEPT ![p].pc = "publish"]
    <2>1. proc[p].plan \in Plans /\ proc[p].plan.source = "canonical"
      BY DEF JInv, Checked
    <2>2. QED BY <1>2, <2>1, TakesJournal, ScaffoldAssumption
  <1>3. \/ journal' = journal /\ \E outcome : Exit(p, outcome)
        \/ /\ journal = None /\ journal' = [plan |-> proc[p].plan, holder |-> p]
           /\ proc' = [proc EXCEPT ![p].pc = "publish"]
    <2> HIDE DEF Exit
    <2>1. QED OBVIOUS
  <1>4. QED BY <1>1, <1>2, <1>3

LEMMA ApplyStepChecked ==
  ASSUME IInv, JInv, NEW p \in Procs, ApplyStep(p)
  PROVE  JInv'
  <1> USE DEF IInv, Consistent, JInv, Checked, Idle, Holding
  <1>1. CASE StartApply(p)
    <2> HIDE DEF Begin, IInv, JInv
    <2>1. PICK file \in PlanFiles : Begin(p, "apply", None, file, "policy")
      BY <1>1 DEF StartApply
    <2>2. QED BY <2>1, BeginChecked
  <1>2. CASE StartRecover(p)
    <2> HIDE DEF Begin, IInv, JInv
    <2>1. QED BY <1>2, BeginChecked DEF StartRecover
  <1>3. CASE ValidatePolicy(p) BY <1>3, GoOnChecked, EndsChecked DEF ValidatePolicy
  <1>4. CASE InspectTransaction(p) BY <1>4, GoOnChecked DEF InspectTransaction
  <1>5. CASE ReadPlan(p)
    <2> DEFINE content == planFiles[proc[p].file]
               allowed == NotDeferred(policy)
               s == [proc[p] EXCEPT !.pc = "assert_apply", !.plan = content,
                                    !.allowed = allowed]
    <2>1. CASE content \in {None, Partial} BY <1>5, <2>1, EndsChecked DEF ReadPlan
    <2>2. CASE content \notin {None, Partial}
      <3>1. content \in Plans BY <1>5, <2>2 DEF ReadPlan
      <3>2. proc' = [proc EXCEPT ![p] = s] BY <1>5, <2>2 DEF ReadPlan
      <3> HIDE DEF content
      <3>3. Checked(p, s) BY <1>5, <3>1 DEF ReadPlan
      <3>4. QED BY <1>5, <3>2, <3>3, OneProcessChecked DEF ReadPlan
    <2>3. QED BY <2>1, <2>2
  <1>6. CASE AssertApply(p)
    <2>1. CASE CanonicalPlan(proc[p].plan)
      <3>1. proc[p].plan.id \in proc[p].allowed /\ proc[p].plan.source = "canonical"
        BY <1>6, <2>1, FoundAllowed DEF AssertApply
      <3>2. QED BY <1>6, <2>1, <3>1, GoOnChecked DEF AssertApply
    <2>2. CASE ~CanonicalPlan(proc[p].plan)
      BY <1>6, <2>2, EndsChecked DEF AssertApply
    <2>3. QED BY <2>1, <2>2
  <1>7. CASE BeginTransaction(p) BY <1>7, BeginTransactionChecked
  <1>8. CASE Recover(p) BY <1>8, RecoverChecked
  <1>9. CASE Publish(p) BY <1>9 DEF Publish
  <1>10. CASE Finalize(p) BY <1>10 DEF Finalize
  <1>11. QED
    BY <1>1, <1>2, <1>3, <1>4, <1>5, <1>6, <1>7, <1>8, <1>9, <1>10 DEF ApplyStep

LEMMA EnvironmentChecked ==
  ASSUME IInv, JInv, Environment
  PROVE  JInv'
  <1> USE DEF IInv, JInv, Checked, NotDeferred
  <1>1. CASE Edit BY <1>1 DEF Edit
  <1>2. CASE EditPolicy
    <2> DEFINE allowed(p) == proc[p].allowed \union NotDeferred(policy')
    <2>1. proc' = [p \in Procs |-> [proc[p] EXCEPT !.allowed = allowed(p)]]
      BY <1>2 DEF EditPolicy
    <2>2. \A p \in Procs : proc[p].allowed \subseteq allowed(p)
                             /\ NotDeferred(policy)' \subseteq allowed(p)
      OBVIOUS
    <2> HIDE DEF allowed, NotDeferred
    <2>3. QED BY <1>2, <2>1, <2>2 DEF EditPolicy, Consistent, Idle
  <1>3. CASE WriteForeign BY <1>3 DEF WriteForeign
  <1>4. CASE CompileElsewhere
    <2>1. PICK file \in PlanFiles, id \in Ids :
            /\ Compilable(id)
            /\ planFiles' = [planFiles EXCEPT ![file] = Compiled(id, "alternate")]
      BY <1>4 DEF CompileElsewhere
    <2> DEFINE plan == Compiled(id, "alternate")
    <2>2. plan \in Plans BY <2>1, CompilesPlans
    <2> HIDE DEF plan
    <2>3. planFiles' = [planFiles EXCEPT ![file] = plan] BY <2>1 DEF plan
    <2>4. QED BY <1>4, <2>2, <2>3 DEF CompileElsewhere
  <1>5. CASE PublishElsewhere BY <1>5 DEF PublishElsewhere, Transactions
  <1>6. QED BY <1>1, <1>2, <1>3, <1>4, <1>5 DEF Environment

LEMMA KillChecked ==
  ASSUME IInv, JInv, NEW p \in Procs, Kill(p)
  PROVE  JInv'
  BY PlansAssumption
  DEF Kill, IInv, Consistent, JInv, Checked, Idle, Holding, Transactions, NotDeferred

THEOREM CommandsChecked == Spec => []JInv
  <1>1. IInv /\ JInv /\ [Next]_vars => JInv'
    <2> SUFFICES ASSUME IInv, JInv, [Next]_vars PROVE JInv'
      OBVIOUS
    <2>1. CASE Environment BY <2>1, EnvironmentChecked
    <2>2. CASE \E p \in Procs : PlanStep(p) BY <2>2, PlanStepChecked
    <2>3. CASE \E p \in Procs : ApplyStep(p) BY <2>3, ApplyStepChecked
    <2>4. CASE \E p \in Procs : Kill(p) BY <2>4, KillChecked
    <2>5. CASE UNCHANGED vars BY <2>5 DEF vars, JInv, Checked, NotDeferred
    <2>6. QED BY <2>1, <2>2, <2>3, <2>4, <2>5 DEF Next
  <1>2. QED BY <1>1, InitChecked, PlannersConsistent, PTL DEF Spec

\* No file is published but from the journal of a canonical plan
\* (scaffold-package.mjs: assertCanonicalOrchestratorPlan, recoverCommand).
THEOREM OnlyCanonicalPublished == Spec => CanonicalPublished
  <1> DEFINE A == \A path \in Paths, k \in 1..Operations :
                    files'[path][k] \in Ids \ {files[path][k]}
                      => journal # None /\ journal.plan.source = "canonical"
  <1>1. JInv /\ [Next]_vars => [A]_vars
    <2> SUFFICES ASSUME JInv, Next PROVE A
      OBVIOUS
    <2>1. CASE \E p \in Procs : Publish(p)
      BY <2>1 DEF Publish, JInv, Checked
    <2>2. CASE WriteForeign
      BY <2>2, ScaffoldAssumption DEF WriteForeign, JInv
    <2>3. CASE UNCHANGED files BY <2>3
    <2>4. QED
      BY <2>1, <2>2, <2>3
      DEF Next, Environment, PlanStep, ApplyStep, Edit, EditPolicy, CompileElsewhere,
          PublishElsewhere, Kill, StartPlan, LoadTarget, ValidateRepository, WriteIntent,
          CompilePlan, AssertPlan, TargetStillFree, StorePlan, FillPlan, StartApply,
          StartRecover, ValidatePolicy, InspectTransaction, ReadPlan, AssertApply,
          BeginTransaction, Recover, Finalize
  <1>2. QED BY <1>1, CommandsChecked, PTL DEF Spec, CanonicalPublished

\* What is stored, and what is begun, was found not deferred by the command that
\* does it, after it had the plan (scaffold-package.mjs: planCommand, applyCommand).
THEOREM DeferralsNoticed == Spec => DeferralNoticed
  <1> DEFINE Stored == \A f \in PlanFiles :
               planFiles'[f] \notin {planFiles[f], None, Partial}
                 => \/ planFiles'[f].source = "alternate"
                    \/ \E p \in Procs : /\ proc[p].plan = planFiles'[f]
                                        /\ planFiles'[f].id \in proc[p].allowed
             Begun == journal = None /\ journal' # None
                 => \/ journal'.holder = None
                    \/ journal'.plan.id \in proc[journal'.holder].allowed
  <1>1. IInv /\ JInv /\ [Next]_vars => [Stored /\ Begun]_vars
    <2> SUFFICES ASSUME IInv, JInv, Next PROVE Stored /\ Begun
      OBVIOUS
    <2>1. Stored
      <3>1. CASE \E p \in Procs : FillPlan(p)
        BY <3>1 DEF FillPlan, IInv, JInv, Checked
      <3>2. CASE \E p \in Procs : StorePlan(p)
        BY <3>2 DEF StorePlan, IInv
      <3>3. CASE CompileElsewhere
        BY <3>3 DEF CompileElsewhere, IInv, Compiled, PlanOf
      <3>4. CASE UNCHANGED planFiles BY <3>4
      <3>5. QED
        BY <3>1, <3>2, <3>3, <3>4
        DEF Next, Environment, PlanStep, ApplyStep, Edit, EditPolicy, WriteForeign,
            PublishElsewhere, Kill, StartPlan, LoadTarget, ValidateRepository,
            WriteIntent, CompilePlan, AssertPlan, TargetStillFree, StartApply,
            StartRecover, ValidatePolicy, InspectTransaction, ReadPlan, AssertApply,
            BeginTransaction, Recover, Publish, Finalize
    <2>2. Begun
      <3>1. CASE \E p \in Procs : BeginTransaction(p)
        BY <3>1 DEF BeginTransaction, JInv, Checked
      <3>2. CASE PublishElsewhere BY <3>2 DEF PublishElsewhere
      <3>3. CASE UNCHANGED journal \/ journal # None \/ journal' = None
        BY <3>3
      <3>4. QED
        BY <3>1, <3>2, <3>3
        DEF Next, Environment, PlanStep, ApplyStep, Edit, EditPolicy, WriteForeign,
            CompileElsewhere, Kill, StartPlan, LoadTarget, ValidateRepository,
            WriteIntent, CompilePlan, AssertPlan, TargetStillFree, StorePlan, FillPlan,
            StartApply, StartRecover, ValidatePolicy, InspectTransaction, ReadPlan,
            AssertApply, Recover, Publish, Finalize
    <2>3. QED BY <2>1, <2>2
  <1>2. QED
    BY <1>1, PlannersConsistent, CommandsChecked, PTL DEF Spec, DeferralNoticed

-----------------------------------------------------------------------------
(* What lies in a target.                                                  *)

Reported == {"applied", "already-applied"}

\* While a process holds the journal, nothing but the package is in its target.
HeldClean ==
    journal # None /\ journal.holder # None =>
        \A k \in 1..Operations :
            files[journal.plan.path][k] \in {Absent, journal.plan.id}

\* Of one process with local state s: it publishes the plan it began, and what it
\* reported as applied is there.
Traced(s) ==
    /\ s.pc = "publish" => journal.plan = s.plan
    /\ s.outcome \in Reported =>
           /\ s.pc = "done" /\ s.plan \in Plans
           /\ \A k \in 1..Operations : files[s.plan.path][k] = s.plan.id

WInv == PackagesWhole /\ HeldClean /\ \A p \in Procs : Traced(proc[p])

LEMMA InitTraced == Init => WInv
  BY ScaffoldAssumption
  DEF Init, WInv, PackagesWhole, HeldClean, Traced, Idle, Reported, Successful

\* A plan is of a package of the catalog, and its target is a path.
LEMMA PlanTargets ==
  ASSUME NEW plan \in Plans
  PROVE  plan.path \in Paths /\ plan.id \in Ids /\ plan.id # Absent /\ plan.id # Foreign
  <1>1. PICK cat \in Catalogs, documents \in Documents, cfg \in Configs,
             source \in {"canonical", "alternate"} :
          plan \in {PlanOf(cat, documents, cfg, i, source) :
                      i \in {j \in DOMAIN cat : cat[j].owner \in DOMAIN documents}}
    BY DEF Plans
  <1>2. PICK i \in DOMAIN cat : plan = PlanOf(cat, documents, cfg, i, source)
    BY <1>1
  <1>3. plan.id = i /\ plan.path = cat[i].path BY <1>2 DEF PlanOf
  <1>4. i \in Ids BY DEF Ids
  <1>5. QED BY <1>3, <1>4, ScaffoldAssumption

\* A step that leaves files and journal alone, and whose process, if it is one
\* of a process, neither begins to publish nor reports a publication.
LEMMA LeavesPackages ==
  ASSUME IInv, WInv, UNCHANGED <<files, journal>>, NEW p \in Procs,
         \A q \in Procs \ {p} : proc'[q] = proc[q],
         proc'[p].pc # "publish", proc'[p].outcome \notin Reported
  PROVE  WInv'
  BY DEF WInv, PackagesWhole, HeldClean, Traced

LEMMA ChangesOne ==
  ASSUME IInv, WInv, UNCHANGED <<files, journal>>, NEW p \in Procs, NEW s,
         proc' = [proc EXCEPT ![p] = s], s.pc # "publish", s.outcome \notin Reported
  PROVE  WInv'
  BY LeavesPackages DEF IInv

LEMMA GoesOn ==
  ASSUME IInv, WInv, UNCHANGED <<files, journal>>, NEW p \in Procs, NEW pc,
         proc' = [proc EXCEPT ![p].pc = pc], pc # "publish", proc[p].pc # "done"
  PROVE  WInv'
  <1> DEFINE s == [proc[p] EXCEPT !.pc = pc]
  <1>1. s.pc = pc /\ s.outcome = proc[p].outcome BY DEF IInv, Consistent, Idle
  <1>2. s.outcome \notin Reported BY <1>1 DEF WInv, Traced
  <1>3. QED BY <1>1, <1>2, ChangesOne

LEMMA EndsOtherwise ==
  ASSUME IInv, WInv, UNCHANGED <<files, journal>>, NEW p \in Procs, NEW outcome,
         Exit(p, outcome), outcome \notin Reported
  PROVE  WInv'
  <1> DEFINE s == [[proc[p] EXCEPT !.pc = "done"] EXCEPT !.outcome = outcome]
  <1>1. s.pc = "done" /\ s.outcome = outcome BY DEF IInv, Consistent, Idle
  <1>2. proc' = [proc EXCEPT ![p] = s] BY DEF IInv
  <1> HIDE DEF s
  <1>3. QED BY <1>1, <1>2, ChangesOne

LEMMA ThrowsLeave ==
  ASSUME IInv, WInv, UNCHANGED <<files, journal>>, NEW p \in Procs, Throw(p)
  PROVE  WInv'
  <1>1. "error" \notin Reported BY DEF Reported
  <1>2. QED BY <1>1, EndsOtherwise

LEMMA BeginsAnew ==
  ASSUME IInv, WInv, NEW p \in Procs, NEW command, NEW id, NEW file,
         NEW pc \in {"load", "policy"}, Begin(p, command, id, file, pc)
  PROVE  WInv'
  <1> DEFINE s == [Idle EXCEPT !.pc = pc, !.command = command, !.id = id,
                               !.file = file, !.allowed = NotDeferred(policy)]
  <1>1. s.pc = pc /\ s.outcome = None BY DEF Idle
  <1>2. proc' = [proc EXCEPT ![p] = s] OBVIOUS
  <1> HIDE DEF s
  <1>3. s.outcome \notin Reported BY <1>1, ScaffoldAssumption DEF Reported, Successful
  <1>4. QED BY <1>1, <1>2, <1>3, ChangesOne

LEMMA PlanStepTraced ==
  ASSUME IInv, WInv, NEW p \in Procs, PlanStep(p)
  PROVE  WInv'
  <1> USE DEF Reported
  <1>1. CASE StartPlan(p)
    <2> HIDE DEF Begin
    <2>1. PICK id \in Ids, file \in PlanFiles : Begin(p, "plan", id, file, "load")
      BY <1>1 DEF StartPlan
    <2>2. UNCHANGED <<files, journal>> BY <2>1 DEF Begin
    <2>3. QED BY <2>1, <2>2, BeginsAnew
  <1>2. CASE LoadTarget(p) \/ ValidateRepository(p) \/ AssertPlan(p) \/ TargetStillFree(p)
    BY <1>2, GoesOn, EndsOtherwise
    DEF LoadTarget, ValidateRepository, AssertPlan, TargetStillFree
  <1>3. CASE WriteIntent(p) BY <1>3, GoesOn DEF WriteIntent
  <1>4. CASE CompilePlan(p)
    <2> DEFINE plan == Compiled(proc[p].id, "canonical")
               allowed == NotDeferred(policy)
               s == [proc[p] EXCEPT !.pc = "assert_plan", !.plan = plan, !.allowed = allowed]
    <2>1. CASE Compilable(proc[p].id)
      <3>1. proc' = [proc EXCEPT ![p] = s] BY <1>4, <2>1 DEF CompilePlan
      <3> HIDE DEF plan, allowed
      <3>2. s.pc = "assert_plan" /\ s.outcome = proc[p].outcome
        BY DEF IInv, Consistent, Idle
      <3>3. s.outcome \notin Reported
        BY <1>4, <3>2 DEF CompilePlan, WInv, Traced
      <3> HIDE DEF s
      <3>4. QED BY <1>4, <3>1, <3>2, <3>3, ChangesOne DEF CompilePlan
    <2>2. CASE ~Compilable(proc[p].id)
      <3>1. Exit(p, "error") /\ UNCHANGED <<files, journal>>
        BY <1>4, <2>2 DEF CompilePlan
      <3>2. QED BY <3>1, ThrowsLeave
    <2>3. QED BY <2>1, <2>2
  <1>5. CASE StorePlan(p)
    BY <1>5, GoesOn, EndsOtherwise DEF StorePlan
  <1>6. CASE FillPlan(p) BY <1>6, EndsOtherwise DEF FillPlan
  <1>7. QED
    BY <1>1, <1>2, <1>3, <1>4, <1>5, <1>6 DEF PlanStep

LEMMA EnvironmentTraced ==
  ASSUME IInv, JInv, WInv, Environment
  PROVE  WInv'
  <1> USE DEF WInv, PackagesWhole, HeldClean, Traced
  <1>1. CASE Edit \/ CompileElsewhere
    BY <1>1 DEF Edit, CompileElsewhere
  <1>2. CASE EditPolicy
    <2> DEFINE allowed(p) == proc[p].allowed \union NotDeferred(policy')
    <2>1. proc' = [p \in Procs |-> [proc[p] EXCEPT !.allowed = allowed(p)]]
      BY <1>2 DEF EditPolicy
    <2> HIDE DEF allowed
    <2>2. \A p \in Procs : /\ proc'[p].pc = proc[p].pc /\ proc'[p].plan = proc[p].plan
                           /\ proc'[p].outcome = proc[p].outcome
      BY <2>1 DEF IInv, Consistent, Idle
    <2>3. QED BY <1>2, <2>2 DEF EditPolicy
  <1>3. CASE WriteForeign
    <2>1. PICK path \in Paths, k \in 1..Operations :
            files[path][k] = Absent /\ files' = [files EXCEPT ![path][k] = Foreign]
      BY <1>3 DEF WriteForeign
    <2>2. \A q \in Paths, j \in 1..Operations :
            files'[q][j] = IF q = path /\ j = k THEN Foreign ELSE files[q][j]
      BY <2>1 DEF JInv
    <2>3. PackagesWhole'
      BY <1>3, <2>1, <2>2, ScaffoldAssumption DEF WriteForeign
    <2>4. HeldClean' BY <1>3 DEF WriteForeign
    <2>5. ASSUME NEW p \in Procs PROVE Traced(proc[p])'
      BY <1>3, <2>1, <2>2, PlanTargets DEF WriteForeign
    <2>6. QED BY <2>3, <2>4, <2>5
  <1>4. CASE PublishElsewhere
    <2>1. journal = None /\ journal'.holder = None /\ UNCHANGED <<files, proc>>
      BY <1>4 DEF PublishElsewhere
    <2>2. \A p \in Procs : proc[p].pc # "publish"
      BY <2>1 DEF JInv, Checked
    <2>3. QED BY <2>1, <2>2
  <1>5. QED BY <1>1, <1>2, <1>3, <1>4 DEF Environment

LEMMA KillTraced ==
  ASSUME IInv, JInv, WInv, NEW p \in Procs, Kill(p)
  PROVE  WInv'
  <1>1. /\ UNCHANGED files /\ proc' = [proc EXCEPT ![p].pc = "killed"]
        /\ proc[p].outcome \notin Reported
    BY DEF Kill, WInv, Traced
  <1>2. /\ journal' = None <=> journal = None
        /\ journal # None => journal'.plan = journal.plan
        /\ journal' = journal \/ journal'.holder = None
    BY PlansAssumption DEF Kill, JInv, Transactions
  <1>3. PackagesWhole' BY <1>1, <1>2 DEF WInv, PackagesWhole
  <1>4. HeldClean' BY <1>1, <1>2 DEF WInv, HeldClean
  <1>5. ASSUME NEW q \in Procs PROVE Traced(proc[q])'
    BY <1>1, <1>2 DEF IInv, Consistent, Idle, JInv, Checked, WInv, Traced
  <1>6. QED BY <1>3, <1>4, <1>5 DEF WInv

\* A process takes the journal for a plan whose target holds nothing else.
LEMMA TakesTarget ==
  ASSUME IInv, JInv, WInv, UNCHANGED files, NEW p \in Procs, NEW plan \in Plans,
         journal' = [plan |-> plan, holder |-> p],
         journal = None \/ journal.holder = None,
         journal # None => plan = journal.plan,
         \A k \in 1..Operations : files[plan.path][k] \in {Absent, plan.id},
         NEW pc \in {"publish", "finish"}, proc[p].pc # "done",
         proc' = [proc EXCEPT ![p].pc = pc],
         pc = "publish" => plan = proc[p].plan
  PROVE  WInv'
  <1>1. /\ journal' # None /\ journal'.plan = plan
    <2>1. journal' \in Transactions BY DEF Transactions
    <2>2. QED BY <2>1, PlansAssumption
  <1>2. PackagesWhole' BY <1>1 DEF WInv, PackagesWhole
  <1>3. HeldClean' BY <1>1 DEF HeldClean
  <1>4. ASSUME NEW q \in Procs \ {p} PROVE Traced(proc[q])'
    <2>1. proc'[q] = proc[q] BY DEF IInv
    <2>2. proc[q].pc # "publish"
      BY ScaffoldAssumption DEF JInv, Checked
    <2>3. QED BY <2>1, <2>2 DEF WInv, Traced
  <1>5. Traced(proc[p])'
    <2>1. /\ proc'[p].pc = pc /\ proc'[p].plan = proc[p].plan
          /\ proc'[p].outcome = proc[p].outcome
      BY DEF IInv, Consistent, Idle
    <2>2. QED BY <1>1, <2>1 DEF WInv, Traced
  <1>6. QED BY <1>2, <1>3, <1>4, <1>5 DEF WInv

LEMMA BeginTransactionTraced ==
  ASSUME IInv, JInv, WInv, NEW p \in Procs, BeginTransaction(p)
  PROVE  WInv'
  <1> DEFINE plan == proc[p].plan
             published == {k \in 1..Operations : files[plan.path][k] = plan.id}
  <1>1. plan \in Plans BY DEF BeginTransaction, JInv, Checked
  <1>2. CASE /\ journal' = journal
             /\ \E outcome : Exit(p, outcome) /\ outcome \notin Reported
    BY <1>2, EndsOtherwise DEF BeginTransaction
  <1>3. CASE /\ journal' = journal /\ published = 1..Operations
             /\ Exit(p, "already-applied")
    <2>1. \A k \in 1..Operations : files[plan.path][k] = plan.id BY <1>3
    <2>2. /\ proc'[p].pc = "done" /\ proc'[p].plan = plan
          /\ \A q \in Procs \ {p} : proc'[q] = proc[q]
      BY <1>3 DEF IInv, Consistent, Idle
    <2>3. UNCHANGED <<files, journal>> BY <1>3 DEF BeginTransaction
    <2> HIDE DEF plan, published
    <2>4. Traced(proc[p])' BY <1>1, <2>1, <2>2, <2>3 DEF Traced
    <2>5. ASSUME NEW q \in Procs \ {p} PROVE Traced(proc[q])'
      BY <2>2, <2>3 DEF WInv, Traced
    <2>6. PackagesWhole' /\ HeldClean'
      BY <2>3 DEF WInv, PackagesWhole, HeldClean
    <2>7. QED BY <2>4, <2>5, <2>6 DEF WInv
  <1>4. CASE /\ journal = None /\ journal' = [plan |-> plan, holder |-> p]
             /\ ~PathExists(plan.path)
             /\ proc' = [proc EXCEPT ![p].pc = "publish"]
    BY <1>1, <1>4, TakesTarget DEF BeginTransaction, PathExists
  <1>5. QED
    <2> HIDE DEF Exit, plan, published
    <2>1. \A o \in {"error", "authority-stale", "recovery-required"} : o \notin Reported
      BY DEF Reported
    <2>2. QED BY <1>2, <1>3, <1>4, <2>1 DEF BeginTransaction, plan, published

LEMMA RecoverTraced ==
  ASSUME IInv, JInv, WInv, NEW p \in Procs, Recover(p)
  PROVE  WInv'
  <1>1. CASE /\ journal' = journal
             /\ \E outcome : Exit(p, outcome) /\ outcome \notin Reported
    BY <1>1, EndsOtherwise DEF Recover
  <1>2. CASE journal' = journal /\ proc' = [proc EXCEPT ![p].pc = "read"]
    BY <1>2, GoesOn DEF Recover
  <1>3. CASE /\ journal # None /\ journal.holder = None
             /\ \A k \in 1..Operations :
                    files[journal.plan.path][k] \in {Absent, journal.plan.id}
             /\ journal' = [journal EXCEPT !.holder = p]
             /\ proc' = [proc EXCEPT ![p].pc = "finish"]
    <2>1. journal' = [plan |-> journal.plan, holder |-> p] /\ journal.plan \in Plans
      BY <1>3 DEF JInv, Transactions
    <2>2. UNCHANGED files /\ proc[p].pc # "done" BY DEF Recover
    <2>3. QED BY <1>3, <2>1, <2>2, TakesTarget
  <1>4. QED
    <2> HIDE DEF Exit
    <2>1. \A o \in {"error", "no-pending-transaction", "recovery-required"} :
            o \notin Reported
      BY DEF Reported
    <2>2. QED BY <1>1, <1>2, <1>3, <2>1 DEF Recover

LEMMA PublishTraced ==
  ASSUME IInv, JInv, WInv, NEW p \in Procs, Publish(p)
  PROVE  WInv'
  <1> DEFINE plan == journal.plan
  <1>1. /\ journal # None /\ journal.holder = p /\ plan \in Plans
        /\ UNCHANGED <<journal, proc>>
    BY DEF Publish, JInv, Checked, Transactions
  <1>2. PICK k \in 1..Operations : /\ files[plan.path][k] = Absent
                                   /\ files' = [files EXCEPT ![plan.path][k] = plan.id]
    BY DEF Publish
  <1>3. /\ plan.path \in Paths /\ plan.id \in Ids /\ plan.id # Absent
    BY <1>1, PlanTargets
  <1>4. \A path \in Paths, j \in 1..Operations :
          files'[path][j] = IF path = plan.path /\ j = k THEN plan.id ELSE files[path][j]
    BY <1>2 DEF JInv
  <1>5. PackagesWhole' BY <1>1, <1>4 DEF WInv, PackagesWhole
  <1>6. HeldClean'
    BY <1>1, <1>3, <1>4, ScaffoldAssumption DEF WInv, HeldClean
  <1>7. ASSUME NEW q \in Procs PROVE Traced(proc[q])'
    BY <1>1, <1>2, <1>4, PlanTargets DEF WInv, Traced
  <1>8. QED BY <1>5, <1>6, <1>7 DEF WInv

\* What was published is whole when the journal is closed.
LEMMA FinalizeTraced ==
  ASSUME IInv, JInv, WInv, NEW p \in Procs, Finalize(p)
  PROVE  WInv'
  <1> DEFINE plan == journal.plan
  <1>1. /\ journal # None /\ journal.holder = p /\ plan \in Plans
        /\ UNCHANGED files /\ journal' = None
    BY DEF Finalize, JInv, Checked, Transactions
  <1>2. \A k \in 1..Operations : files[plan.path][k] = plan.id
    BY <1>1, ScaffoldAssumption DEF Finalize, WInv, HeldClean
  <1>3. plan.id \in Ids BY <1>1, PlanTargets
  <1>4. PackagesWhole' BY <1>1, <1>2, <1>3 DEF WInv, PackagesWhole
  <1>5. HeldClean' BY <1>1 DEF HeldClean
  <1>6. ASSUME NEW q \in Procs \ {p} PROVE Traced(proc[q])'
    <2>1. proc'[q] = proc[q] BY DEF Finalize, IInv
    <2>2. proc[q].pc # "publish" BY <1>1 DEF JInv, Checked
    <2>3. QED BY <1>1, <2>1, <2>2 DEF WInv, Traced
  <1>7. Traced(proc[p])'
    <2>1. /\ proc'[p].pc = "done" /\ proc'[p].plan = proc[p].plan
          /\ proc'[p].outcome = IF At(p, "publish") THEN "applied" ELSE "failed-recovered"
      BY DEF Finalize, IInv, Consistent, Idle
    <2>2. At(p, "publish") => proc[p].plan = plan BY DEF WInv, Traced
    <2>3. QED BY <1>1, <1>2, <2>1, <2>2 DEF Traced, Reported
  <1>8. QED BY <1>4, <1>5, <1>6, <1>7 DEF WInv

LEMMA ApplyStepTraced ==
  ASSUME IInv, JInv, WInv, NEW p \in Procs, ApplyStep(p)
  PROVE  WInv'
  <1> USE DEF Reported
  <1>1. CASE StartApply(p) \/ StartRecover(p)
    <2> HIDE DEF Begin
    <2>1. PICK command, file : Begin(p, command, None, file, "policy")
      BY <1>1 DEF StartApply, StartRecover
    <2>2. UNCHANGED <<files, journal>> BY <2>1 DEF Begin
    <2>3. QED BY <2>1, <2>2, BeginsAnew
  <1>2. CASE ValidatePolicy(p) \/ InspectTransaction(p) \/ AssertApply(p)
    BY <1>2, GoesOn, EndsOtherwise DEF ValidatePolicy, InspectTransaction, AssertApply
  <1>3. CASE ReadPlan(p)
    <2> DEFINE content == planFiles[proc[p].file]
               allowed == NotDeferred(policy)
               s == [proc[p] EXCEPT !.pc = "assert_apply", !.plan = content,
                                    !.allowed = allowed]
    <2>1. CASE content \in {None, Partial}
      <3>1. Exit(p, "error") /\ UNCHANGED <<files, journal>>
        BY <1>3, <2>1 DEF ReadPlan
      <3>2. QED BY <3>1, ThrowsLeave
    <2>2. CASE content \notin {None, Partial}
      <3>1. proc' = [proc EXCEPT ![p] = s] BY <1>3, <2>2 DEF ReadPlan
      <3> HIDE DEF content, allowed
      <3>2. s.pc = "assert_apply" /\ s.outcome = proc[p].outcome
        BY DEF IInv, Consistent, Idle
      <3>3. s.outcome \notin Reported BY <1>3, <3>2 DEF ReadPlan, WInv, Traced
      <3> HIDE DEF s
      <3>4. QED BY <1>3, <3>1, <3>2, <3>3, ChangesOne DEF ReadPlan
    <2>3. QED BY <2>1, <2>2
  <1>4. CASE BeginTransaction(p) BY <1>4, BeginTransactionTraced
  <1>5. CASE Recover(p) BY <1>5, RecoverTraced
  <1>6. CASE Publish(p) BY <1>6, PublishTraced
  <1>7. CASE Finalize(p) BY <1>7, FinalizeTraced
  <1>8. QED
    BY <1>1, <1>2, <1>3, <1>4, <1>5, <1>6, <1>7 DEF ApplyStep

THEOREM PublicationsTraced == Spec => []WInv
  <1>1. IInv /\ JInv /\ WInv /\ [Next]_vars => WInv'
    <2> SUFFICES ASSUME IInv, JInv, WInv, [Next]_vars PROVE WInv'
      OBVIOUS
    <2>1. CASE Environment BY <2>1, EnvironmentTraced
    <2>2. CASE \E p \in Procs : PlanStep(p) BY <2>2, PlanStepTraced
    <2>3. CASE \E p \in Procs : ApplyStep(p) BY <2>3, ApplyStepTraced
    <2>4. CASE \E p \in Procs : Kill(p) BY <2>4, KillTraced
    <2>5. CASE UNCHANGED vars
      BY <2>5 DEF vars, WInv, PackagesWhole, HeldClean, Traced
    <2>6. QED BY <2>1, <2>2, <2>3, <2>4, <2>5 DEF Next
  <1>2. QED
    BY <1>1, InitTraced, PlannersConsistent, CommandsChecked, PTL DEF Spec

\* Where no transaction is pending, a package lies whole or not at all, whoever
\* was killed while publishing it and whoever finished it
\* (scaffold-package.mjs: applyCommand, recoverCommand).
THEOREM PackagesPublishedWhole == Spec => []PackagesWhole
  <1>1. WInv => PackagesWhole BY DEF WInv
  <1>2. QED BY <1>1, PublicationsTraced, PTL

\* A command that answers `applied' or `already-applied' tells the truth for ever
\* (scaffold-package.mjs: applyCommand).
THEOREM AppliedIsPublished == Spec => []AppliedWhole
  <1>1. WInv => AppliedWhole BY DEF WInv, Traced, Reported, AppliedWhole
  <1>2. QED BY <1>1, PublicationsTraced, PTL

=============================================================================
