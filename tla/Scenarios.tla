------------------------------ MODULE Scenarios ------------------------------
(***************************************************************************)
(* The enumerated runs of the pipeline (internal/tofu/scenario.go) as one  *)
(* function from a scenario's id to what it declares.                      *)
(***************************************************************************)
\* What a scenario declares when it says nothing else.
Base ==
  [var |-> "secure.tfvars", allowlist |-> "default.json", artifact |-> "",
   manifest |-> "", gated |-> FALSE, binding |-> "honest", breakEngine |-> FALSE,
   scan |-> FALSE, denylist |-> FALSE, advisory |-> FALSE, outOfBand |-> FALSE,
   drift |-> FALSE, vulnerable |-> FALSE, skipApply |-> FALSE, skipRemote |-> FALSE,
   expect |-> "applied", reconciliation |-> "PASS"]

Gated == [Base EXCEPT !.gated = TRUE]
Refused == [Gated EXCEPT !.expect = "refused"]
Evaluating(artifact) == [Refused EXCEPT !.artifact = artifact]

\* The misconfigured value set: labelled, and expected to fail reconciliation.
Vulnerable == [Base EXCEPT !.var = "vulnerable.tfvars", !.vulnerable = TRUE, !.reconciliation = "FAIL"]

ScenarioId ==
  {"offline-init", "secure-apply", "refuse-anonymous-export", "refuse-unrestricted-admin",
   "fail-closed-unparsable", "fail-closed-unknown-type", "fail-closed-unrecognized-field",
   "fail-closed-engine-error", "binding-unapproved-plan", "binding-modified-plan",
   "binding-stale-approval", "reviewed-exposure-unapproved", "reviewed-exposure",
   "routine-change", "vulnerable-gated", "vulnerable-ungated", "half-fix-source-scan",
   "half-fix-report-only", "manifest-intended", "manifest-exposed",
   "manifest-exposed-ungated", "half-fix-denylist", "half-fix-review-path-only",
   "half-fix-drift"}

Scenarios == [id \in ScenarioId |->
  CASE id = "offline-init"                   -> [Base EXCEPT !.skipApply = TRUE, !.skipRemote = TRUE]
    [] id = "secure-apply"                   -> Gated
    [] id = "refuse-anonymous-export"        -> Evaluating("modified-anonymous-export-grant.json")
    [] id = "refuse-unrestricted-admin"      -> Evaluating("modified-unrestricted-admin.json")
    [] id = "fail-closed-unparsable"         -> Evaluating("modified-unparsable.json")
    [] id = "fail-closed-unknown-type"       -> Evaluating("modified-unknown-resource-type.json")
    [] id = "fail-closed-unrecognized-field" -> Evaluating("modified-unrecognized-field.json")
    [] id = "fail-closed-engine-error"       -> [Refused EXCEPT !.breakEngine = TRUE]
    [] id = "binding-unapproved-plan"        -> [Refused EXCEPT !.binding = "unapproved"]
    [] id = "binding-modified-plan"          -> [Refused EXCEPT !.binding = "modified"]
    [] id = "binding-stale-approval"         -> [Refused EXCEPT !.binding = "stale"]
    [] id = "reviewed-exposure-unapproved"   -> [Refused EXCEPT !.var = "reviewed-exposure.tfvars"]
    [] id = "reviewed-exposure"              -> [Gated EXCEPT !.var = "reviewed-exposure.tfvars",
                                                              !.allowlist = "reviewed-exposure.json"]
    [] id = "routine-change"                 -> [Gated EXCEPT !.var = "routine-change.tfvars"]
    [] id = "vulnerable-gated"               -> [Refused EXCEPT !.var = "vulnerable.tfvars", !.vulnerable = TRUE]
    [] id = "vulnerable-ungated"             -> Vulnerable
    [] id = "half-fix-source-scan"           -> [Vulnerable EXCEPT !.scan = TRUE]
    [] id = "half-fix-report-only"           -> [Vulnerable EXCEPT !.gated = TRUE, !.advisory = TRUE]
    [] id = "manifest-intended"              -> [Gated EXCEPT !.manifest = "intended"]
    [] id = "manifest-exposed"               -> [Refused EXCEPT !.manifest = "exposed", !.vulnerable = TRUE]
    [] id = "manifest-exposed-ungated"       -> [Vulnerable EXCEPT !.var = "secure.tfvars",
                                                                   !.manifest = "exposed", !.scan = TRUE]
    [] id = "half-fix-denylist"              -> [Vulnerable EXCEPT !.var = "denylist.tfvars", !.denylist = TRUE]
    [] id = "half-fix-review-path-only"      -> [Vulnerable EXCEPT !.gated = TRUE, !.outOfBand = TRUE,
                                                                   !.expect = "applied-out-of-band"]
    [] id = "half-fix-drift"                 -> [Vulnerable EXCEPT !.var = "secure.tfvars",
                                                                   !.gated = TRUE, !.drift = TRUE]]

\* Mutant: the acknowledgement alone opens the vulnerable scenarios.
AvailableAcknowledged(scenario, env) ==
  scenario.vulnerable => env.acknowledgement = "true"

\* Available: a vulnerable scenario needs both opt-ins of its environment.
Available(scenario, env) ==
  scenario.vulnerable => env.surface = "vulnerable" /\ env.acknowledgement = "true"

\* The scenarios whose run is meant to leave an exposure behind.
Exposing == {id \in ScenarioId : Scenarios[id].reconciliation = "FAIL"}
=============================================================================
