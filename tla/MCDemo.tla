------------------------------- MODULE MCDemo -------------------------------
(***************************************************************************)
(* The demonstration for TLC: the platform of MCPipeline with everything   *)
(* its clients ask for, which adds the status page, the objects and the    *)
(* fare engine's service port.                                             *)
(***************************************************************************)
EXTENDS Demo, MCPipeline

CONSTANTS page, service, statusRead, serviceRule, pagePublic, serviceFromCorp

\* The service port and the public page, in every value set and every overlay.
Furnished(graph, stored) ==
  [graph EXCEPT !.st = [slot \in Slot |->
     CASE slot.kind = "object"          -> IF stored THEN body ELSE None
       [] slot = GrantSlot(statusRead)  -> ReadGrant(page, {Anonymous}, {MCAddr})
       [] slot = RuleSlot(serviceRule)  -> [workload |-> engine_, port |-> service, source_ranges |-> {Corp}]
       [] slot = WorkloadSlot(engine_)  -> [@[slot] EXCEPT !.binds[service] = n3]
       [] OTHER                         -> @[slot]]]

FullPlanOf == [f \in DOMAIN MCPlanOf |-> Furnished(MCPlanOf[f], TRUE)]
FullManifestOf == [o \in DOMAIN MCManifestOf |-> Furnished(MCManifestOf[o], FALSE)]
FullArtifactOf ==
  [a \in DOMAIN MCArtifactOf |->
     IF MCArtifactOf[a] = Unparsable THEN Unparsable ELSE Furnished(MCArtifactOf[a], TRUE)]

FullAllowlistOf ==
  [f \in DOMAIN MCAllowlistOf |-> MCAllowlistOf[f] \cup
     {BucketRule(pagePublic, page, {Anonymous}, {MCAddr}),
      [rule |-> serviceFromCorp, kind |-> "workload_port", name |-> <<engine_, service>>, sources |-> {Corp}]}]

FullFixture == FullPlanOf["secure.tfvars"].st

StoredIn(bucket) == [kind |-> "bucket", name |-> bucket, key |-> refunds]
Listening(port) == [kind |-> "workload_port", name |-> <<engine_, port>>, key |-> None]
PageProbe == StoredIn(page)
AssetsProbe == StoredIn(assets)
ExportProbe == StoredIn(exports)
AdminProbe == Listening(admin)
ServiceProbe == Listening(service)
DemoProbes == <<PageProbe, AssetsProbe, ExportProbe, AdminProbe, ServiceProbe>>

\* The probe client, and the finance workstation outside the operations range.
DemoObservers ==
  <<[segment |-> "internet", addr |-> n5, principal |-> Anonymous],
    [segment |-> "corp", addr |-> n3, principal |-> finance]>>

\* The commands of demo.sh that touch the platform, `run' with an admitted scenario
\* and with two that the default pipeline does not offer.
DemoCommands ==
  {"verify", "up", "down", "vulnerable", "compare", "refusals", "paths", "manifests", "checks", "state",
   "secure-apply", "vulnerable-ungated", "half-fix-drift"}
=============================================================================
