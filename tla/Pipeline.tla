------------------------------ MODULE Pipeline ------------------------------
(***************************************************************************)
(* Runs of the deployment pipeline (internal/tofu) against one platform:   *)
(* a scenario's plan or manifest set is evaluated, its approval is bound   *)
(* to the plan artifact, and the toolchain puts the resources one by one.  *)
(* Beside the scenarios there are the two operator commands of             *)
(* cmd/pipeline, `drift' and `remove-undeclared'.                          *)
(*                                                                         *)
(* Every run is a process of its own with a working tree of its own; what  *)
(* runs share is the platform.  The toolchain and the control plane may    *)
(* fail at any step, which ends the run where it is.                       *)
(***************************************************************************)
EXTENDS GatePolicy, Scenarios

CONSTANTS
  Run,          \* process slots: a new run may start where one has ended
  Env,          \* the surface and the acknowledgement a slot's container has
  Job,          \* the scenarios and commands that are started
  PlanOf,       \* what a variable file resolves to
  ManifestOf,   \* what an overlay renders to
  ArtifactOf,   \* the checked-in artifacts, Unparsable among them
  AllowlistOf,  \* the entries of an allowlist file
  ConsoleGrant, ExtraGrant,   \* grants no secure configuration declares
  ExportBucket,
  MaxFailures   \* bound: failing steps in a behaviour

ASSUME JobAssumption == Job \subseteq ScenarioId \cup {"drift", "remove-undeclared"}
ASSUME MaxFailuresAssumption == MaxFailures \in Nat
ASSUME GrantAssumption == {ConsoleGrant, ExtraGrant} \subseteq GrantId /\ ExportBucket \in BucketName

\* Every scenario names something that is checked in.
ASSUME DesiredAssumption ==
  \A id \in ScenarioId :
    LET s == Scenarios[id]
    IN /\ PlanOf[s.var] \in Graph
       /\ s.manifest # "" => ManifestOf[s.manifest] \in Graph
       /\ s.artifact # "" => ArtifactOf[s.artifact] \in Graph \cup {Unparsable}
       /\ AllowlistOf[s.allowlist] \in SUBSET Entry

VARIABLES
  platform,   \* the configuration the control plane holds
  run,        \* the transcript and the step of every run
  failures    \* failing steps so far

vars == <<platform, run, failures>>

-----------------------------------------------------------------------------
(* What a scenario evaluates and applies.                                  *)

Evaluated(s) ==
  IF s.manifest # "" THEN ManifestOf[s.manifest]
  ELSE IF s.artifact # "" THEN ArtifactOf[s.artifact]
  ELSE PlanOf[s.var]

\* Mutant: the stores are left out of a plan's apply too.
DeclaredAccess(s) ==
  {slot \in Slot : Evaluated(s).st[slot] # None /\ slot.kind \in {"grant", "workload", "network_rule"}}

\* ApplyManifestGraph puts the access configuration over stores that exist.
Declared(s) ==
  {slot \in Slot : /\ Evaluated(s).st[slot] # None
                   /\ s.manifest # "" => slot.kind \in {"grant", "workload", "network_rule"}}

\* The order of ApplyManifestGraph's loops; the order inside one is left open.
Rank(slot) == CASE slot.kind = "grant" -> 1 [] slot.kind = "workload" -> 2 [] OTHER -> 3

\* The resources a resource of infra/ refers to: the toolchain puts them first.
RefersTo(slot, st) ==
  CASE slot.kind = "object"       -> {BucketSlot(slot.id.bucket)}
    [] slot.kind = "grant"        -> {BucketSlot(st[slot].target.name)}
    [] slot.kind = "network_rule" -> {WorkloadSlot(st[slot].workload)}
    [] OTHER                      -> {}

Ready(s, todo) ==
  {slot \in todo :
     IF s.manifest # ""
     THEN \A other \in todo : Rank(slot) <= Rank(other)
     ELSE RefersTo(slot, Evaluated(s).st) \cap todo = {}}

\* Mutant: the range is an address and no block.
DriftGrantAddress ==
  [target |-> BucketTarget(ExportBucket), principals |-> {Anonymous},
   actions |-> {"read"}, source_ranges |-> {Unspecified}]

\* The change half-fix-drift makes at the control plane.
DriftGrant ==
  [target |-> BucketTarget(ExportBucket), principals |-> {Anonymous},
   actions |-> {"read"}, source_ranges |-> {Addr}]

UndeclaredGrants == <<ConsoleGrant, ExtraGrant>>
UndeclaredSlots == {GrantSlot(UndeclaredGrants[i]) : i \in DOMAIN UndeclaredGrants}

-----------------------------------------------------------------------------
(* The gate's decision, the approval and its verification.                 *)

Answer(result, class, findings) == [result |-> result, class |-> class, findings |-> findings]

\* One finding for every exposure and one for every other class.
FindingsOf(graph, allowlist) ==
  Uncovered(graph.st, allowlist)
    \cup {[kind |-> "class", name |-> c] :
            c \in Violations(graph, allowlist) \ {"exposure_not_allowlisted"}}

\* Mutant: an engine that fails is taken for one that found nothing.
EngineOpen == Answer("admit", "policy_engine_error", {})
EngineError == Answer("deny", "policy_engine_error", {})

\* What gate.Evaluate may return (Gate models how); broken is BreakEngine.
Evaluations(graph, allowlist, broken) ==
  IF graph = Unparsable
  THEN {Answer("deny", "unparsable_artifact", {})}
  ELSE {EngineError} \cup
       (IF broken \/ Conflicting(graph.st, allowlist) THEN {}
        ELSE LET found == FindingsOf(graph, allowlist)
             IN {Answer(IF found = {} THEN "admit" ELSE "deny", "evaluated", found)})

DecisionsOf(s) == Evaluations(Evaluated(s), AllowlistOf[s.allowlist], s.breakEngine)

Denied(d) == d # None /\ d.result = "deny"

\* A run id digests the scenario and the plan artifact.
RunID(id, file) == <<id, file>>
Approval(id, file) == [run |-> RunID(id, file), plan |-> file]

\* rehearseBinding: the approval that is written and the plan artifact after it.
Rehearsed(id, file) ==
  CASE Scenarios[id].binding = "unapproved" -> [approval |-> None, file |-> file]
    [] Scenarios[id].binding = "stale"      ->
         [approval |-> [Approval(id, file) EXCEPT !.run = RunID("some-other-run", file)], file |-> file]
    [] Scenarios[id].binding = "modified"   ->
         [approval |-> Approval(id, file), file |-> [file EXCEPT !.appended = TRUE]]
    [] Scenarios[id].binding = "honest"     -> [approval |-> Approval(id, file), file |-> file]

\* Mutant: without an approval there is nothing to hold against the plan.
VerifyLenient(id, file, approval) ==
  IF file = None                          THEN "plan_artifact_not_approved"
  ELSE IF approval = None                 THEN ""
  ELSE IF approval.plan # file            THEN "plan_artifact_changed_after_approval"
  ELSE IF approval.run # RunID(id, file)  THEN "approval_issued_for_another_run"
  ELSE ""

\* VerifyApproval, its cases in order: the plan is read before the approval.
VerifyApproval(id, file, approval) ==
  IF file = None \/ approval = None       THEN "plan_artifact_not_approved"
  ELSE IF approval.plan # file            THEN "plan_artifact_changed_after_approval"
  ELSE IF approval.run # RunID(id, file)  THEN "approval_issued_for_another_run"
  ELSE ""

-----------------------------------------------------------------------------
(* Transcripts.                                                            *)

Fresh(job) ==
  [pc |-> "resolve", job |-> job, before |-> None, after |-> None, appliedState |-> None,
   file |-> None, approval |-> None, decision |-> None, would |-> None, audit |-> <<>>,
   advisory |-> FALSE, applied |-> FALSE, outOfBand |-> FALSE, result |-> "DEPLOY_REFUSED",
   todo |-> {}, wrote |-> {}, live |-> None, drift |-> None, error |-> FALSE, passed |-> FALSE]

Failed(t) == [t EXCEPT !.pc = "end", !.error = TRUE]

\* refuse: the one audit event and the generic result.
Refuse(t, stage, class) ==
  [t EXCEPT !.applied = FALSE, !.result = "DEPLOY_REFUSED",
            !.audit = Append(@, [stage |-> stage, class |-> class])]

\* Two literal rules; no bucket of this platform is marked public.
DenylistFindings(st) ==
  {n \in RuleId : st[RuleSlot(n)] # None /\ Addr \in st[RuleSlot(n)].source_ranges}

\* assert: did the run meet the outcome its scenario declares?
Meets(s, t) ==
  CASE s.expect = "applied-out-of-band" ->
         /\ t.outOfBand /\ t.applied /\ t.result = "DEPLOY_REFUSED"
         /\ Len(t.audit) = 1 /\ Denied(t.decision)
    [] s.expect = "applied" ->
         /\ t.result = "DEPLOYED"
         /\ IF s.drift THEN /\ t.decision # None /\ ~Denied(t.decision)
                            /\ t.drift # None /\ t.drift.detected
                            /\ t.appliedState # t.after
            ELSE IF s.scan THEN Denied(t.would)
            ELSE IF s.manifest # "" THEN t.decision # None /\ ~Denied(t.decision)
            ELSE IF s.denylist THEN DenylistFindings(Evaluated(s).st) = {} /\ Denied(t.would)
            ELSE s.advisory => /\ t.advisory /\ Denied(t.decision)
                               /\ Cardinality(t.decision.findings) >= 2
    [] s.expect = "refused" ->
         /\ t.result = "DEPLOY_REFUSED" /\ ~t.applied /\ Len(t.audit) = 1
         /\ s.skipRemote \/ t.before = t.after

Conclude(s, t) == [t EXCEPT !.pc = "end", !.passed = Meets(s, t)]

\* Mutant: the second path to apply is open to every refusal.
FinishAnyway(s, t) ==
  IF s.artifact # "" THEN Failed(t)
  ELSE IF s.skipApply THEN Conclude(s, [t EXCEPT !.result = "DEPLOYED"])
  ELSE [t EXCEPT !.pc = "apply", !.todo = Declared(s)]

\* finish, up to its apply.
Finish(s, t) ==
  LET refused == t.audit # <<>>
  IN IF ~refused /\ s.artifact # "" THEN Failed(t)
     ELSE IF IF refused THEN s.outOfBand ELSE ~s.skipApply
     THEN [t EXCEPT !.pc = "apply", !.todo = Declared(s)]
     ELSE LET reported == IF refused THEN t ELSE [t EXCEPT !.result = "DEPLOYED"]
          IN IF s.skipRemote THEN Conclude(s, reported) ELSE [reported EXCEPT !.pc = "after"]

-----------------------------------------------------------------------------
(* The steps of a scenario.                                                *)

Init ==
  /\ platform = [slot \in Slot |-> None]
  /\ run = [r \in Run |-> [Fresh(None) EXCEPT !.pc = "idle"]]
  /\ failures = 0

Becomes(r, t) == run' = [run EXCEPT ![r] = t]
At(r, pc) == run[r].pc = pc
ScenarioOf(r) == Scenarios[run[r].job]

\* Run up to the state digest before; an unavailable scenario ends at once.
Start(r, job) ==
  /\ run[r].pc \in {"idle", "end"}
  /\ job \in ScenarioId
  /\ LET s == Scenarios[job]
         begun == IF s.skipRemote THEN Fresh(job)
                  ELSE [Fresh(job) EXCEPT !.before = platform, !.after = platform]
     IN Becomes(r, IF Available(s, Env[r]) THEN begun ELSE Failed(Fresh(job)))
  /\ UNCHANGED <<platform, failures>>

\* runManifest: the decision of a gated run counts, any other is noted beside it.
EvaluateManifest(r) ==
  /\ At(r, "resolve") /\ ScenarioOf(r).manifest # ""
  /\ \E d \in DecisionsOf(ScenarioOf(r)) :
       LET s == ScenarioOf(r)
           t == IF s.gated THEN [run[r] EXCEPT !.decision = d] ELSE [run[r] EXCEPT !.would = d]
       IN Becomes(r, IF s.gated /\ Denied(d)
                     THEN [Refuse(t, "policy", d.class) EXCEPT !.pc = "after"]
                     ELSE [t EXCEPT !.pc = "apply", !.todo = Declared(s)])
  /\ UNCHANGED <<platform, failures>>

\* Mutant: the refusal is recorded and the approval is rehearsed all the same.
JudgedOnward(s, t, d) ==
  IF ~s.gated \/ s.scan \/ s.denylist THEN Finish(s, [t EXCEPT !.would = d])
  ELSE IF Denied(d) /\ ~s.advisory
  THEN [Refuse([t EXCEPT !.decision = d], "policy", d.class) EXCEPT !.pc = "bind"]
  ELSE [t EXCEPT !.decision = d, !.advisory = Denied(d), !.pc = "bind"]

\* Run between the plan and the approval, for a decision of the gate.
Judged(s, t, d) ==
  IF ~s.gated \/ s.scan \/ s.denylist THEN Finish(s, [t EXCEPT !.would = d])
  ELSE IF Denied(d) /\ ~s.advisory
  THEN Finish(s, Refuse([t EXCEPT !.decision = d], "policy", d.class))
  ELSE [t EXCEPT !.decision = d, !.advisory = Denied(d), !.pc = "bind"]

\* The plan artifact, or none for a checked-in artifact, and its evaluation.
Evaluate(r) ==
  /\ At(r, "resolve") /\ ScenarioOf(r).manifest = ""
  /\ \E d \in DecisionsOf(ScenarioOf(r)) :
       LET s == ScenarioOf(r)
           file == IF s.artifact # "" THEN None ELSE [plan |-> s.var, appended |-> FALSE]
       IN Becomes(r, Judged(s, [run[r] EXCEPT !.file = file], d))
  /\ UNCHANGED <<platform, failures>>

\* The approval, its rehearsal, its verification, and finish.
BindApproval(r) ==
  /\ At(r, "bind")
  /\ LET t == run[r]
         rehearsed == Rehearsed(t.job, t.file)
         class == VerifyApproval(t.job, rehearsed.file, rehearsed.approval)
         bound == [t EXCEPT !.approval = rehearsed.approval, !.file = rehearsed.file]
     IN Becomes(r, Finish(ScenarioOf(r),
                          IF class = "" THEN bound ELSE Refuse(bound, "binding", class)))
  /\ UNCHANGED <<platform, failures>>

\* One resource is put; every run begins with no toolchain state, so a resource
\* of the plan is always written and no other is ever deleted.
Put(r) ==
  /\ At(r, "apply")
  /\ \E slot \in Ready(ScenarioOf(r), run[r].todo) :
       /\ platform' = [platform EXCEPT ![slot] = Evaluated(ScenarioOf(r)).st[slot]]
       /\ Becomes(r, [run[r] EXCEPT !.todo = @ \ {slot}, !.wrote = @ \cup {slot}])
  /\ UNCHANGED failures

\* The toolchain exits, or the last put of a manifest set returns.
Applied(r) ==
  /\ At(r, "apply") /\ run[r].todo = {}
  /\ LET t == [run[r] EXCEPT !.applied = TRUE, !.pc = "after"]
     IN Becomes(r, IF t.audit = <<>> THEN [t EXCEPT !.result = "DEPLOYED"]
                   ELSE [t EXCEPT !.outOfBand = TRUE])
  /\ UNCHANGED <<platform, failures>>

\* The state digest after, and the assertion unless the scenario drifts.
ReadAfter(r) ==
  /\ At(r, "after")
  /\ LET s == ScenarioOf(r)
         t == [run[r] EXCEPT !.after = platform,
                             !.appliedState = IF run[r].applied THEN platform ELSE None]
     IN Becomes(r, IF s.drift /\ t.applied THEN [t EXCEPT !.pc = "mutate"] ELSE Conclude(s, t))
  /\ UNCHANGED <<platform, failures>>

\* applyDriftMutation
Mutate(r) ==
  /\ At(r, "mutate")
  /\ platform' = [platform EXCEPT ![GrantSlot(ConsoleGrant)] = DriftGrant]
  /\ Becomes(r, [run[r] EXCEPT !.pc = "mutated", !.wrote = @ \cup {GrantSlot(ConsoleGrant)}])
  /\ UNCHANGED failures

\* Mutant: the digest that was taken after the apply is kept.
ReadStale(r) ==
  /\ At(r, "mutated")
  /\ Becomes(r, [run[r] EXCEPT !.pc = "drift"])
  /\ UNCHANGED <<platform, failures>>

ReadMutated(r) ==
  /\ At(r, "mutated")
  /\ Becomes(r, [run[r] EXCEPT !.after = platform, !.pc = "drift"])
  /\ UNCHANGED <<platform, failures>>

-----------------------------------------------------------------------------
(* The drift check and the removal of undeclared grants.                   *)

StartDrift(r) ==
  /\ run[r].pc \in {"idle", "end"}
  /\ Becomes(r, [Fresh("drift") EXCEPT !.pc = "drift"])
  /\ UNCHANGED <<platform, failures>>

\* Drift reads the state, and in a second request its digest.
DriftRead(r) ==
  /\ At(r, "drift")
  /\ Becomes(r, [run[r] EXCEPT !.live = platform, !.pc = "digest"])
  /\ UNCHANGED <<platform, failures>>

DriftAllowlist(t) ==
  AllowlistOf[IF t.job \in ScenarioId THEN Scenarios[t.job].allowlist ELSE "default.json"]

\* Mutant: what the check evaluates is the configuration, not the world.
Declaration(st) == PlanOf["secure.tfvars"]

\* FromPlatformState takes the state over as it is and knows every type in it.
Graphed(st) == [st |-> st, unknown |-> FALSE, unrecognized |-> FALSE]

DriftReport(r) ==
  /\ At(r, "digest")
  /\ \E d \in Evaluations(Graphed(run[r].live), DriftAllowlist(run[r]), FALSE) :
       LET t == [run[r] EXCEPT !.drift = [digest |-> platform, detected |-> Denied(d)]]
       IN Becomes(r, IF t.job \in ScenarioId THEN Conclude(ScenarioOf(r), t)
                     ELSE [t EXCEPT !.pc = "end", !.passed = ~Denied(d)])
  /\ UNCHANGED <<platform, failures>>

\* RemoveUndeclaredGrants: which of them are there.
StartRemoval(r) ==
  /\ run[r].pc \in {"idle", "end"}
  /\ Becomes(r, [Fresh("remove-undeclared") EXCEPT
                   !.pc = "remove",
                   !.todo = {slot \in UndeclaredSlots : platform[slot] # None}])
  /\ UNCHANGED <<platform, failures>>

\* They are deleted in the order of the list; one that is gone by then is an error.
Remove(r) ==
  /\ At(r, "remove")
  /\ \E i \in DOMAIN UndeclaredGrants :
       LET slot == GrantSlot(UndeclaredGrants[i])
       IN /\ slot \in run[r].todo
          /\ \A j \in 1..(i - 1) : GrantSlot(UndeclaredGrants[j]) \notin run[r].todo
          /\ platform' = [platform EXCEPT ![slot] = None]
          /\ Becomes(r, IF platform[slot] = None THEN Failed(run[r])
                        ELSE [run[r] EXCEPT !.todo = @ \ {slot}, !.wrote = @ \cup {slot}])
  /\ UNCHANGED failures

Removed(r) ==
  /\ At(r, "remove") /\ run[r].todo = {}
  /\ Becomes(r, [run[r] EXCEPT !.pc = "end", !.passed = TRUE])
  /\ UNCHANGED <<platform, failures>>

-----------------------------------------------------------------------------
\* Any step may end in an error: the run returns what it has.  A put that was
\* carried out before it failed is a Put and then Fail.
Fail(r) ==
  /\ failures < MaxFailures
  /\ run[r].pc \notin {"idle", "end"}
  /\ Becomes(r, Failed(run[r]))
  /\ failures' = failures + 1
  /\ UNCHANGED platform

Begin(r) ==
  \/ \E job \in Job : Start(r, job)
  \/ "drift" \in Job /\ StartDrift(r)
  \/ "remove-undeclared" \in Job /\ StartRemoval(r)

Step(r) ==
  \/ Begin(r) \/ EvaluateManifest(r) \/ Evaluate(r) \/ BindApproval(r)
  \/ Put(r) \/ Applied(r) \/ ReadAfter(r)
  \/ Mutate(r) \/ ReadMutated(r) \/ DriftRead(r) \/ DriftReport(r)
  \/ Remove(r) \/ Removed(r) \/ Fail(r)

Next == \E r \in Run : Step(r)

Spec == Init /\ [][Next]_vars

-----------------------------------------------------------------------------
(* Types.                                                                  *)

Stored == {st \in [Slot -> Resource \cup {None}] : IsState(st)}
File == [plan : {Scenarios[id].var : id \in ScenarioId}, appended : BOOLEAN]
Class ==
  {"policy_engine_error", "unparsable_artifact", "evaluated", "plan_artifact_not_approved",
   "plan_artifact_changed_after_approval", "approval_issued_for_another_run"}
Finding ==
  [kind : {"bucket"}, name : BucketName]
    \cup [kind : {"port"}, name : WorkloadName \X PortName] \cup [kind : {"class"}, name : ViolationClass]
Decision == [result : {"admit", "deny"}, class : Class, findings : SUBSET Finding]

\* None is no decision.
ASSUME NoneAssumption == None \notin Decision

\* Nor a plan artifact, a grant, a drift report or an approval.
ASSUME AbsenceAssumption ==
  /\ None \notin File \cup Grant
  /\ None \notin [digest : Stored, detected : BOOLEAN]
  /\ \A id \in ScenarioId, file \in File : Approval(id, file) # None

Transcript ==
  [pc : {"idle", "resolve", "bind", "apply", "after", "mutate", "mutated", "drift", "digest",
         "remove", "end"},
   job : ScenarioId \cup {"drift", "remove-undeclared", None},
   before : Stored \cup {None}, after : Stored \cup {None}, appliedState : Stored \cup {None},
   file : File \cup {None},
   approval : [run : (ScenarioId \cup {"some-other-run"}) \X (File \cup {None}), plan : File \cup {None}]
                \cup {None},
   decision : Decision \cup {None}, would : Decision \cup {None},
   audit : Seq([stage : {"policy", "binding"}, class : Class]),
   advisory : BOOLEAN, applied : BOOLEAN, outOfBand : BOOLEAN,
   result : {"DEPLOYED", "DEPLOY_REFUSED"},
   todo : SUBSET Slot, wrote : SUBSET Slot, live : Stored \cup {None},
   drift : [digest : Stored, detected : BOOLEAN] \cup {None},
   error : BOOLEAN, passed : BOOLEAN]

\* The platform holds a configuration and every run a transcript.
TypeOK ==
  /\ platform \in Stored
  /\ run \in [Run -> Transcript]
  /\ failures \in 0..MaxFailures

-----------------------------------------------------------------------------
(* Safety.                                                                 *)

\* The runs of a scenario: the operator commands have none.
Scenic(r) == run[r].job \in ScenarioId

\* A run that recorded a refusal wrote nothing, unless its scenario is the one
\* with a second path to apply; neither did a run its environment does not offer
\* (harness.go 54-59, 323-347), whatever the engine, the toolchain and other
\* runs did meanwhile.
RefusalChangesNothing ==
  \A r \in Run : Scenic(r) =>
    /\ run[r].audit # <<>> /\ ~ScenarioOf(r).outOfBand => run[r].wrote = {}
    /\ ~Available(ScenarioOf(r), Env[r]) => run[r].wrote = {}

\* The scenarios whose configuration the policy admits.
Admissible ==
  {id \in ScenarioId :
     LET s == Scenarios[id] IN
       Evaluated(s) # Unparsable /\ Admits(Evaluated(s), AllowlistOf[s.allowlist])}

\* A gated run writes only under an admission by the policy of what it writes;
\* on the plan path there is an approval of this run for the very artifact that
\* is applied (harness.go 223-253, approval.go 76-98).
AppliedWasApproved ==
  \A r \in Run :
    Scenic(r) /\ ScenarioOf(r).gated /\ ~ScenarioOf(r).advisory
      /\ ~ScenarioOf(r).outOfBand /\ run[r].wrote # {} =>
      /\ run[r].decision # None /\ run[r].decision.result = "admit"
      /\ run[r].job \in Admissible
      /\ ScenarioOf(r).manifest = "" => run[r].approval = Approval(run[r].job, run[r].file)

\* What a transcript says of the run is so: one audit event exactly when a run
\* that reached its end was refused, the result it reports, and `applied' only
\* when everything declared was written (harness.go 322-360, manifest_run.go).
TranscriptIsTrue ==
  \A r \in Run : Scenic(r) /\ Available(ScenarioOf(r), Env[r]) =>
    LET t == run[r]  s == ScenarioOf(r) IN
      /\ Len(t.audit) <= 1
      /\ t.pc = "end" /\ ~t.error => (t.result = "DEPLOY_REFUSED" <=> Len(t.audit) = 1)
      /\ t.applied => Declared(s) \subseteq t.wrote
      /\ t.result = "DEPLOYED" => t.audit = <<>> /\ (s.skipApply \/ t.applied)
      /\ t.pc = "end" /\ ~t.error /\ ~t.applied => t.wrote = {}

\* The only slot in use: runs come one after the other, as in demo.sh.
Alone(r) == \A other \in Run \ {r} : run[other].pc = "idle"

\* Restoring closes everything: when a secure-apply has just run its course with
\* no enumerated grant left, the platform is in the intended posture, whatever
\* was applied, refused, drifted or abandoned before (demo.sh restore).
SecureApplyRestores ==
  \A r \in Run :
    Alone(r) /\ run[r].job = "secure-apply" /\ run[r].pc = "after" /\ run[r].applied
      /\ (\A slot \in UndeclaredSlots : platform[slot] = None) =>
    platform = PlanOf["secure.tfvars"].st

\* Every scenario meets the outcome it declares, from any platform it may find,
\* when its engine answers and nothing fails (scenario.go 106-307, harness.go
\* 394-453).  half-fix-drift asks that its grant is not there yet.
ScenariosMeetTheirOutcome ==
  \A r \in Run :
    LET t == run[r] IN
    Scenic(r) /\ t.pc = "end" /\ ~t.error /\ ~t.passed =>
      \/ \E d \in {t.decision, t.would} :
           d # None /\ d.class = "policy_engine_error" /\ ~ScenarioOf(r).breakEngine
      \/ ScenarioOf(r).drift /\ t.before[GrantSlot(ConsoleGrant)] # None

\* A drift check that reports nothing has read a state in which every exposure
\* is one its allowlist names (drift.go 44-87).
DriftReportIsSound ==
  \A r \in Run :
    run[r].drift # None /\ ~run[r].drift.detected =>
      ExposuresNamed(run[r].live, DriftAllowlist(run[r]))

-----------------------------------------------------------------------------
(* What is said of the program and does not hold.                          *)

\* README.md 113-120: every refusal returns DEPLOY_REFUSED, and "Nothing refused
\* ever changes anything".  The out-of-band scenario is left aside.
RefusedMeansUntouched ==
  \A r \in Run :
    Scenic(r) /\ run[r].pc = "end" /\ run[r].result = "DEPLOY_REFUSED"
      /\ Available(ScenarioOf(r), Env[r]) /\ ~ScenarioOf(r).outOfBand =>
    run[r].wrote = {}
=============================================================================
