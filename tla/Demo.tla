-------------------------------- MODULE Demo --------------------------------
(***************************************************************************)
(* The whole demonstration (scripts/demo.sh): what each of its commands    *)
(* runs, in order, until the first step that fails, and the checks its     *)
(* clients make on the way (cmd/client/main.go).  A command runs alone,    *)
(* one step after the other; it finds whatever the commands before it,     *)
(* finished or stopped half way, have left on the platform and in the      *)
(* files it keeps.                                                         *)
(***************************************************************************)
EXTENDS Observation, Configurations, TLC

CONSTANTS
  SecureRun, VulnerableRun,   \* the pipelines of the two profiles, slots of Run
  StatusPage, StatusAssets, RefundExport, AdminPort, ServicePort,  \* the probes
  OpsAddress,                 \* the operations workstation
  Fixture,                    \* fixtures.SecureBaseline
  Command,                    \* the commands that are given
  MaxCommands                 \* bound: commands given in a behaviour

\* The pipeline of the default profile is built without the misconfigured surface,
\* and what is stored is no answer of its own.
ASSUME DemoAssumption ==
  /\ Job = ScenarioId \cup {"drift", "remove-undeclared"}
  /\ Env[SecureRun].surface # "vulnerable" /\ None # "vulnerable"
  /\ Body \cap {"served", "refused", "raised", "lost"} = {}
  /\ {SecureRun, VulnerableRun} = Run
  /\ Probes = <<StatusPage, StatusAssets, RefundExport, AdminPort, ServicePort>>
  /\ DOMAIN Observers = 1..2 /\ Observers[1].segment = "internet" /\ Observers[2].segment = "corp"
  /\ SegmentName(OpsAddress) = "corp"
  /\ Fixture \in Stored /\ MaxCommands \in Nat

VARIABLES
  shell,       \* the command under way, or the last one
  commands,    \* commands given so far
  containers,  \* the profiles that are up
  ledger,      \* the platform's workload.change rows
  saved,       \* the documents and transcripts in the script's files
  table        \* the rows of COMPARISON

demoVars == <<platform, run, failures, shell, commands, containers, ledger, saved, table>>

-----------------------------------------------------------------------------
(* The steps a command is made of.                                         *)

Up == [op |-> "up"]
UpVulnerable == [op |-> "up-vulnerable"]
Down == [op |-> "down"]
Truncate == [op |-> "truncate"]
Check(name) == [op |-> "check", name |-> name]
Observe(i, file) == [op |-> "observe", client |-> i, file |-> file]
Compare(kind, files) == [op |-> "compare", kind |-> kind, files |-> files]

\* A run of the pipeline in the container it is executed in.
Exec(job) == [op |-> "run", job |-> job, slot |-> SecureRun, needs |-> "checks",
              observed |-> FALSE, counted |-> FALSE, file |-> None]
Offline == [Exec("offline-init") EXCEPT !.needs = None]
Scenario(job) == [Exec(job) EXCEPT !.observed = TRUE]
VulnerableScenario(job) == [Scenario(job) EXCEPT !.slot = VulnerableRun, !.needs = "vulnerable"]
Into(step, file) == [step EXCEPT !.file = file]
Each(jobs) == [i \in DOMAIN jobs |-> Scenario(jobs[i])]

Baseline == Check("internet-secure-baseline")
Reach == Check("internet-vulnerable-reach")

Refusals == Each(<<
  "refuse-anonymous-export", "refuse-unrestricted-admin", "fail-closed-unparsable",
  "fail-closed-unknown-type", "fail-closed-unrecognized-field", "fail-closed-engine-error",
  "binding-unapproved-plan", "binding-modified-plan", "binding-stale-approval">>)

ManifestSurface == <<Scenario("manifest-intended"), Check("state-matches-fixture")>>

Legitimate == <<
  Scenario("reviewed-exposure-unapproved"), Baseline,
  Observe(1, "before"), Scenario("routine-change"), Observe(1, "after"),
  Compare("observations", <<"before", "after">>),
  Scenario("reviewed-exposure"), Check("internet-reviewed-exposure")>>

Checks == <<
  Baseline, Check("finance-corp-read"), Check("ops-admin-read"), Check("state-matches-fixture"),
  Check("encryption-enabled"), Exec("drift"),
  Check("ops-admin-change"), Check("ledger-records-one-change")>>

\* Mutant: the secure value set alone is expected to close everything.
RestoreByApply == <<Into(Scenario("secure-apply"), "secure"), Baseline>>

Restore == <<Exec("remove-undeclared"), Into(Scenario("secure-apply"), "secure"), Baseline>>

QuietReset == <<Exec("remove-undeclared"), Scenario("secure-apply")>>

\* A misconfigured scenario, what the public segment reaches of it, and the fix.
Shape(job) == <<VulnerableScenario(job), Reach>> \o Restore

\* The misconfigured scenarios, what is reached of them, and the fixes.
Demonstrated ==
  <<Scenario("secure-apply"), Baseline, Observe(2, "secure-observation"),
    VulnerableScenario("vulnerable-gated"), Baseline,
    Into(VulnerableScenario("vulnerable-ungated"), "vulnerable"),
    Observe(1, "iac-observation"), Observe(2, "vulnerable-observation"),
    Check("internet-vulnerable-impact"), Check("vulnerable-ledger"), Check("encryption-enabled"),
    Compare("application", <<"secure-observation", "vulnerable-observation">>),
    Check("corp-legitimate-paths")>>
  \o Restore \o Shape("half-fix-source-scan") \o Shape("half-fix-report-only")
  \o <<Into(VulnerableScenario("half-fix-denylist"), "denylist"), Reach,
       Compare("exposure", <<"vulnerable", "denylist">>)>>
  \o Restore \o Shape("half-fix-review-path-only")
  \o <<VulnerableScenario("half-fix-drift"), Check("internet-drifted-export"),
       Exec("remove-undeclared"), Exec("drift")>>
  \o Restore
  \o <<VulnerableScenario("manifest-exposed"), Baseline,
       VulnerableScenario("manifest-exposed-ungated"), Reach, Observe(1, "manifest-observation"),
       Compare("reachability", <<"iac-observation", "manifest-observation">>)>>
  \o Restore
  \o <<Compare("builds", <<"vulnerable", "secure">>)>>

Demonstration == <<Down, Up, UpVulnerable>> \o Demonstrated \o <<Down>>

\* The scenarios of compare: COMPARISON is set, so each adds a row.
Counted(steps) == [i \in DOMAIN steps |-> [steps[i] EXCEPT !.counted = TRUE]]

\* Mutant: the resets between the measurements add rows too.
MeasuredResets(step) == Counted(<<step>>) \o <<Exec("remove-undeclared")>> \o Counted(<<Scenario("secure-apply")>>)

\* A measurement, and the intended posture again for the next.
Measured(step) == Counted(<<step>>) \o QuietReset

Comparison ==
  <<Down, Up, UpVulnerable, Truncate>>
  \o Counted(<<Scenario("secure-apply")>> \o Refusals
             \o Each(<<"reviewed-exposure-unapproved", "routine-change">>))
  \o Measured(Scenario("reviewed-exposure")) \o Measured(Scenario("manifest-intended"))
  \o Measured(VulnerableScenario("vulnerable-gated"))
  \o Measured(VulnerableScenario("vulnerable-ungated"))
  \o Measured(VulnerableScenario("half-fix-source-scan"))
  \o Measured(VulnerableScenario("half-fix-report-only"))
  \o Measured(VulnerableScenario("half-fix-denylist"))
  \o Measured(VulnerableScenario("half-fix-review-path-only"))
  \o Measured(VulnerableScenario("manifest-exposed"))
  \o Measured(VulnerableScenario("manifest-exposed-ungated"))
  \o Measured(VulnerableScenario("half-fix-drift"))
  \o <<Compare("table", <<>>), Down>>

OptIn == {"vulnerable", "compare"}

\* What a command runs; any other word is the scenario of `demo.sh run'.
Script == [c \in Command |->
  CASE c = "verify"     -> <<Up, Offline>> \o Refusals \o <<Scenario("secure-apply")>>
                             \o Checks \o ManifestSurface \o Legitimate \o <<Down>>
    [] c = "up"         -> <<Up, Scenario("secure-apply")>>
    [] c = "down"       -> <<Down>>
    [] c = "vulnerable" -> Demonstration
    [] c = "compare"    -> Comparison
    [] c = "refusals"   -> Refusals
    [] c = "paths"      -> Legitimate
    [] c = "manifests"  -> ManifestSurface
    [] c = "checks"     -> Checks
    [] c = "state"      -> <<Check("state-matches-fixture")>>
    [] OTHER            -> <<Scenario(c)>>]

-----------------------------------------------------------------------------
(* What the clients ask for and expect.                                    *)

OutsideRole == CallerOf(1)
FinanceRole == CallerOf(2)
\* The corporate role without a principal, from the finance and the operations workstation.
CorpRole == [FinanceRole EXCEPT !.principal = Anonymous]
OpsRole == [CorpRole EXCEPT !.addr = OpsAddress]

\* The fare engine answers with its fare cap, which the one admin transition raises.
Response(probe, caller) ==
  IF probe.kind = "workload_port" /\ Answers(probe, caller) = "served" /\ ledger # <<>>
  THEN "raised" ELSE Answers(probe, caller)

Serves(caller, probe) == Response(probe, caller) # "refused"
Refuses(caller, probe) == Response(probe, caller) = "refused"

\* Byte for byte what is checked in.
Reads(caller, probe) ==
  Response(probe, caller) = Fixture[ObjectSlot([bucket |-> probe.name, key |-> probe.key])]

InternetSecureBaseline ==
  /\ Reads(OutsideRole, StatusPage) /\ Refuses(OutsideRole, RefundExport) /\ Refuses(OutsideRole, StatusAssets)
  /\ Refuses(OutsideRole, AdminPort) /\ Refuses(OutsideRole, ServicePort)

InternetReviewedExposure ==
  /\ Reads(OutsideRole, StatusAssets) /\ Reads(OutsideRole, StatusPage)
  /\ Refuses(OutsideRole, RefundExport) /\ Refuses(OutsideRole, AdminPort)

\* The POST that follows is answered as the GET before it is.
InternetVulnerableReach == Reads(OutsideRole, RefundExport) /\ Serves(OutsideRole, AdminPort)

InternetDriftedExport == Reads(OutsideRole, RefundExport) /\ Refuses(OutsideRole, AdminPort)

CorpLegitimatePaths ==
  Reads(FinanceRole, RefundExport) /\ Serves(FinanceRole, ServicePort) /\ Reads(FinanceRole, StatusPage)

FinanceCorpRead ==
  /\ Reads(FinanceRole, RefundExport) /\ Reads(FinanceRole, StatusAssets) /\ Serves(FinanceRole, ServicePort)
  /\ Refuses(FinanceRole, AdminPort) /\ Refuses(CorpRole, RefundExport)

OpsAdminRead == Serves(OpsRole, AdminPort) /\ Refuses(OpsRole, RefundExport)

StateMatchesFixture == platform = Fixture

\* Exactly one row, by an anonymous caller from a segment.
OneTransition(segment) == ledger = <<[principal |-> Anonymous, segment |-> segment]>>

\* The transition changed the world and not the declared infrastructure.
LedgerRecordsOneChange == OneTransition("corp") /\ platform = Fixture

VulnerableLedger == OneTransition("internet")

\* Every store there is is encrypted, as every value set asks for.
EncryptionEnabled == ListedBuckets(platform) # {}

Passes(check) ==
  CASE check = "internet-secure-baseline"   -> InternetSecureBaseline
    [] check = "internet-reviewed-exposure" -> InternetReviewedExposure
    [] check \in {"internet-vulnerable-reach", "internet-vulnerable-impact"} -> InternetVulnerableReach
    [] check = "internet-drifted-export"    -> InternetDriftedExport
    [] check = "corp-legitimate-paths"      -> CorpLegitimatePaths
    [] check = "finance-corp-read"          -> FinanceCorpRead
    [] check = "ops-admin-read"             -> OpsAdminRead
    [] check = "ops-admin-change"           -> Serves(OpsRole, AdminPort)
    [] check = "state-matches-fixture"      -> StateMatchesFixture
    [] check = "ledger-records-one-change"  -> LedgerRecordsOneChange
    [] check = "vulnerable-ledger"          -> VulnerableLedger
    [] check = "encryption-enabled"         -> EncryptionEnabled

\* Who performs the transition in a check, and the row of it when it is let through,
\* whatever the rest of the check says.
Posting(check) ==
  CASE check = "ops-admin-change"           -> {OpsRole}
    [] check = "internet-vulnerable-impact" -> {OutsideRole}
    [] OTHER                                -> {}

Posted(check) ==
  IF \E c \in Posting(check) : Serves(c, AdminPort)
  THEN LET c == CHOOSE c \in Posting(check) : TRUE
       IN <<[principal |-> c.principal, segment |-> c.segment]>>
  ELSE <<>>

\* What a client observes: every answer, or all but one when a request fails.
Views(i) ==
  LET all == [k \in DOMAIN Probes |-> Response(Probes[k], CallerOf(i))]
  IN {all} \cup (IF failures < MaxFailures THEN {[all EXCEPT ![k] = "lost"] : k \in DOMAIN Probes}
                 ELSE {})

Losses(saw) == Cardinality({k \in DOMAIN saw : saw[k] = "lost"})

\* A file is emptied when a step that writes it begins.
Without(file) == [f \in DOMAIN saved \ {file} |-> saved[f]]
Write(file, content) == (file :> content) @@ saved

-----------------------------------------------------------------------------
(* The commands.                                                           *)

Idle == [Fresh(None) EXCEPT !.pc = "idle"]

\* Is the command given from where its description says it may be?
Prepared(command) ==
  CASE command \in OptIn \cup {"down"} -> TRUE
    [] command = "verify"  -> containers = {}
    [] command = "up"      -> \A slot \in UndeclaredSlots : platform[slot] = None
    [] command = "checks"  -> containers # {} /\ platform = Fixture /\ ledger = <<>>
    [] OTHER               -> /\ containers # {} /\ platform = Fixture
                              /\ command \in ScenarioId => Available(Scenarios[command], Env[SecureRun])

DemoInit ==
  /\ Init
  /\ shell = [status |-> "done", command |-> None, at |-> 1, acknowledged |-> FALSE,
              prepared |-> FALSE, disturbed |-> FALSE]
  /\ commands = 0 /\ containers = {} /\ ledger = <<>>
  /\ saved = [f \in {} |-> None] /\ table = <<>>

\* A command is given; the misconfigured ones not without the acknowledgement.
Invoke ==
  /\ shell.status # "running" /\ commands < MaxCommands
  /\ commands' = commands + 1
  /\ \E command \in Command, acknowledged \in BOOLEAN :
       /\ acknowledged => command \in OptIn
       /\ shell' = [status |-> IF command \in OptIn /\ ~acknowledged THEN "stopped" ELSE "running",
                    command |-> command, at |-> 1, acknowledged |-> acknowledged,
                    prepared |-> Prepared(command), disturbed |-> FALSE]
  /\ UNCHANGED <<platform, run, failures, containers, ledger, saved, table>>

Current == Script[shell.command][shell.at]
Doing(op) ==
  /\ shell.status = "running" /\ Current.op = op
  /\ \A r \in Run : run[r].pc = "idle"

\* Mutant: the shell goes on past the last step.
ProceedPast(ended, disturbed) ==
  shell' = [shell EXCEPT
    !.disturbed = @ \/ disturbed,
    !.at = IF ended THEN @ + 1 ELSE @,
    !.status = IF ~ended THEN "stopped"
               ELSE IF shell.at > Len(Script[shell.command]) THEN "done" ELSE "running"]

\* The next step when this one ended well, and no further one otherwise.
Proceed(ended, disturbed) ==
  shell' = [shell EXCEPT
    !.disturbed = @ \/ disturbed,
    !.at = IF ended /\ @ < Len(Script[shell.command]) THEN @ + 1 ELSE @,
    !.status = IF ~ended THEN "stopped"
               ELSE IF shell.at = Len(Script[shell.command]) THEN "done" ELSE "running"]

\* What a step of the compose file or of a client does to the world.
Effect(step) ==
  /\ platform' = IF step.op = "down" THEN [slot \in Slot |-> None] ELSE platform
  /\ containers' = CASE step.op = "down"          -> {}
                     [] step.op = "up"            -> containers \cup {"checks"}
                     [] step.op = "up-vulnerable" -> containers \cup {"vulnerable"}
                     [] OTHER                     -> containers
  /\ ledger' = IF step.op = "down" THEN <<>>
               ELSE IF step.op = "check" /\ containers # {} THEN ledger \o Posted(step.name)
               ELSE ledger
  /\ UNCHANGED <<run, commands>>

Deploy ==
  /\ Doing("up") \/ Doing("up-vulnerable") \/ Doing("down")
  /\ Effect(Current) /\ Proceed(TRUE, FALSE)
  /\ UNCHANGED <<failures, saved, table>>

TruncateTable ==
  /\ Doing("truncate") /\ table' = <<>> /\ Proceed(TRUE, FALSE)
  /\ UNCHANGED <<platform, run, failures, commands, containers, ledger, saved>>

ClientCheck ==
  /\ Doing("check")
  /\ Effect(Current) /\ Proceed(containers # {} /\ Passes(Current.name), FALSE)
  /\ UNCHANGED <<failures, saved, table>>

\* A document of one client, kept in a file.
ClientObserve ==
  /\ Doing("observe")
  /\ \E saw \in Views(Current.client) :
       /\ Proceed(containers # {}, Losses(saw) # 0)
       /\ failures' = failures + Losses(saw)
       /\ saved' = IF containers # {} THEN Write(Current.file, Document(Current.client, saw))
                   ELSE Without(Current.file)
  /\ UNCHANGED <<platform, run, commands, containers, ledger, table>>

\* The pipeline's comparisons, of files this command may not have written.
Agree(kind, files) ==
  /\ \A i \in DOMAIN files : files[i] \in DOMAIN saved
  /\ CASE kind = "observations" -> SameObservations(saved[files[1]], saved[files[2]])
       [] kind = "reachability" -> SameReach(saved[files[1]], saved[files[2]])
       [] kind = "application"  -> SameApplication(saved[files[1]], saved[files[2]], ResourceOf(ServicePort))
       [] kind = "exposure"     -> SameExposure(saved[files[1]], saved[files[2]])
       [] kind = "builds"       -> TRUE
       [] kind = "table"        -> table # <<>>

PipelineCompare ==
  /\ Doing("compare")
  /\ Proceed("checks" \in containers /\ Agree(Current.kind, Current.files), FALSE)
  /\ UNCHANGED <<platform, run, failures, commands, containers, ledger, saved, table>>

\* A pipeline is executed in its container, when that is there.
BeginRun ==
  /\ Doing("run")
  /\ IF Current.needs \in containers \cup {None}
     THEN /\ \/ Start(Current.slot, Current.job)
             \/ Current.job = "drift" /\ StartDrift(Current.slot)
             \/ Current.job = "remove-undeclared" /\ StartRemoval(Current.slot)
          /\ UNCHANGED shell
     ELSE Proceed(FALSE, FALSE) /\ UNCHANGED <<platform, run, failures>>
  /\ UNCHANGED <<commands, containers, ledger, saved, table>>

\* The engine failed where the scenario did not have it fail.
EngineFailed(t) ==
  \/ \E d \in {t.decision, t.would} :
       d # None /\ d.class = "policy_engine_error" /\ ~Scenarios[t.job].breakEngine
  \/ t.drift # None /\ t.drift.detected /\ Admits(Graphed(t.live), DriftAllowlist(t))

\* One order among those in which the toolchain may put the resources.
NextPut(r) == CHOOSE slot \in Ready(ScenarioOf(r), run[r].todo) : TRUE

\* An engine that fails is one of the failures that are bounded.
RunStep(r) ==
  /\ run[r].pc \notin {"idle", "end"}
  /\ Step(r)
  /\ At(r, "apply") /\ run'[r].pc = "apply" => run'[r].todo = run[r].todo \ {NextPut(r)}
  /\ EngineFailed(run'[r]) => failures' < MaxFailures
  /\ shell' = [shell EXCEPT !.disturbed = @ \/ failures' > failures]
  /\ UNCHANGED <<commands, containers, ledger, saved, table>>

\* What a later comparison reads of a transcript.
Kept(t) == [job |-> t.job, decision |-> t.decision, would |-> t.would]

\* The pipeline has exited.  A scenario that passed is observed from both segments
\* and reconciled; its transcript is kept, its row added.
EndRun(r) ==
  /\ run[r].pc = "end"
  /\ run' = [run EXCEPT ![r] = Idle]
  /\ \E first \in Views(1), second \in Views(2) :
       LET t == run[r]
           reconciled == Reconciled(t, Document(1, first) \cup Document(2, second))
           ended == t.passed /\ (Current.observed => reconciled.passed)
           losses == Losses(first) + Losses(second) + (IF EngineFailed(t) THEN 1 ELSE 0)
       IN /\ ~(Current.observed /\ t.passed) => Losses(first) + Losses(second) = 0
          /\ failures + losses <= MaxFailures
          /\ failures' = failures + losses
          /\ Proceed(ended, losses # 0)
          /\ saved' = IF ended /\ Current.file # None THEN Write(Current.file, Kept(t))
                      ELSE Without(Current.file)
          /\ table' = IF ended /\ Current.counted THEN Append(table, RowOf(t, reconciled)) ELSE table
  /\ UNCHANGED <<platform, commands, containers, ledger>>

\* A step other than a run's fails, before or after it did what it does.
StepFails ==
  /\ failures < MaxFailures
  /\ shell.status = "running" /\ Doing(Current.op)
  /\ failures' = failures + 1
  /\ Proceed(FALSE, TRUE)
  /\ \/ Effect(Current)
     \/ UNCHANGED <<platform, run, commands, containers, ledger>>
  /\ saved' = IF Current.op = "observe" THEN Without(Current.file) ELSE saved
  /\ UNCHANGED table

\* Nobody gives another command.
Over ==
  /\ shell.status # "running" /\ commands = MaxCommands
  /\ UNCHANGED demoVars

ShellStep ==
  \/ Deploy \/ TruncateTable \/ ClientCheck \/ ClientObserve \/ PipelineCompare
  \/ BeginRun \/ StepFails
  \/ \E r \in Run : RunStep(r) \/ EndRun(r)

DemoNext == Invoke \/ ShellStep \/ Over

DemoSpec == DemoInit /\ [][DemoNext]_demoVars

-----------------------------------------------------------------------------
(* Safety.                                                                 *)

\* The shell is at a step of its command, and the pipelines run only for it.
DemoTypeOK ==
  /\ shell.status \in {"running", "stopped", "done"} /\ shell.command \in Command \cup {None}
  /\ shell.command # None => shell.at \in DOMAIN Script[shell.command]
  /\ shell.acknowledged \in BOOLEAN /\ shell.prepared \in BOOLEAN /\ shell.disturbed \in BOOLEAN
  /\ commands \in 0..MaxCommands /\ failures \in 0..MaxFailures
  /\ containers \in SUBSET {"checks", "vulnerable"}
  /\ ledger \in Seq([principal : Principal \cup {Anonymous}, segment : {"corp", "internet"}])
  /\ \A r \in Run : run[r].pc # "idle" => shell.status = "running" /\ Current.op = "run"

\* A command that was given where it may be, and during which nothing failed, runs
\* to its end: every check its clients make, every verdict its scenarios declare
\* and every comparison holds where the script has it, `vulnerable' and `compare'
\* from whatever an earlier command, finished or stopped half way, has left
\* (demo.sh 135-199, 216-341, 451-487; "every vulnerable run starts from empty
\* state", 235).
DemonstrationsComplete ==
  shell.status = "stopped" =>
    shell.disturbed \/ ~shell.prepared \/ (shell.command \in OptIn /\ ~shell.acknowledged)

\* Whatever is done and whatever fails, the platform exposes nothing an allowlist
\* does not name, and nobody outside has performed the admin transition, unless
\* the vulnerable profile is up, which takes an acknowledgement and which no
\* demonstration that ended leaves up (demo.sh 211-232, 396-400).
NothingWithoutOptIn ==
  /\ "vulnerable" \notin containers =>
       /\ ExposuresNamed(platform, Named)
       /\ \A i \in DOMAIN ledger : ledger[i].segment # "internet"
  /\ shell.status = "done" /\ shell.command \in OptIn => containers = {}

Row(id, evaluated, decision, enforcement, exposed, reachable, state, verdict) ==
  [scenario |-> id, evaluated |-> evaluated, decision |-> decision, enforcement |-> enforcement,
   exposed |-> exposed, reachable |-> reachable, state |-> state, verdict |-> verdict]

Closed(id, decision) ==
  Row(id, "resolved state", decision, "refused", {}, {StatusPage.name}, "unchanged", "PASS")
Landed(id, evaluated, decision, enforcement) ==
  Row(id, evaluated, decision, enforcement, {RefundExport.name, AdminPort.name},
      {RefundExport.name, StatusPage.name, AdminPort.name}, "changed", "FAIL")

\* The table of README.md 163-177.
Published ==
  {Row("secure-apply", "resolved state", "admit", "applied", {}, {StatusPage.name}, "changed", "PASS"),
   Closed("refuse-anonymous-export", "deny"), Closed("fail-closed-unparsable", "deny"),
   Closed("binding-modified-plan", "admit"),
   Row("reviewed-exposure", "resolved state", "admit", "applied", {},
       {StatusAssets.name, StatusPage.name}, "changed", "PASS"),
   Row("manifest-intended", "resolved state", "admit", "applied", {}, {StatusPage.name}, "unchanged", "PASS"),
   Landed("vulnerable-ungated", "nothing", "none", "applied"),
   Landed("half-fix-source-scan", "source text", "0 findings", "applied"),
   Landed("half-fix-report-only", "resolved state", "deny", "advisory, applied"),
   Landed("half-fix-denylist", "resolved state (literals)", "0 findings", "applied"),
   Landed("half-fix-review-path-only", "resolved state", "deny", "refused, applied anyway"),
   Landed("manifest-exposed-ungated", "base manifests", "0 findings", "applied"),
   Row("half-fix-drift", "resolved state", "admit", "applied", {},
       {RefundExport.name, StatusPage.name}, "changed", "FAIL")}

\* A comparison in which nothing failed has one row of every scenario that reads
\* the platform, and among them the published ones, word for word.
PublishedTable ==
  shell.status = "done" /\ shell.command = "compare" /\ ~shell.disturbed =>
    /\ \A id \in ScenarioId \ {"offline-init"} :
         Cardinality({i \in DOMAIN table : table[i].scenario = id}) = 1
    /\ Published \subseteq {table[i] : i \in DOMAIN table}
=============================================================================
