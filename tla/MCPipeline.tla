----------------------------- MODULE MCPipeline -----------------------------
(***************************************************************************)
(* Small instances of Pipeline for TLC with the value sets of infra/, the  *)
(* overlays and the allowlists: the refund export and its object, the      *)
(* second status asset's bucket, and the fare engine's admin port.         *)
(***************************************************************************)
EXTENDS Pipeline, TLC

CONSTANTS n0, n1, n2, n3, n4, n5, n6, n7,
          finance, exports, assets, refunds, engine_, admin,
          financeRead, assetsRead, consoleRead, extraRead, adminRule,
          days30, days90, body, secureRun, vulnerableRun,
          exportToFinance, assetsToFinance, assetsPublic, adminFromOperations

\* Eight addresses in aligned blocks.  n0 is 0.0.0.0, n3 the fare engine's own
\* address, n2 the operations range inside the corporate segment.
MCAddrs == <<n0, n1, n2, n3, n4, n5, n6, n7>>
B(lo, hi) == {MCAddrs[i] : i \in (lo + 1)..(hi + 1)}
MCAddr == B(0, 7)
MCBlock == {B(i, i) : i \in 0..7} \cup {B(i, i + 1) : i \in {0, 2, 4, 6}}
             \cup {B(0, 3), B(4, 7), B(0, 7)}
Operations == B(2, 2)
Corp == B(2, 3)
Halves == {B(0, 3), B(4, 7)}
MCSegments == <<[name |-> "corp", cidr |-> Corp], [name |-> "internet", cidr |-> B(4, 5)]>>

ReadGrant(bucket, ps, rs) ==
  [target |-> BucketTarget(bucket), principals |-> ps, actions |-> {"read"}, source_ranges |-> rs]

\* One value set: log retention, who reads the export and the asset, the extra
\* grant, the admin port's bind address and its permitted sources.
Values == [days |-> days30, export |-> ReadGrant(exports, {finance}, {Corp}),
           asset |-> ReadGrant(assets, {finance}, {Corp}), extra |-> None,
           bind |-> n3, sources |-> {Operations}]

Resolved(v) ==
  [st |-> [slot \in Slot |->
             CASE slot.kind = "bucket" -> v.days
               [] slot = ObjectSlot([bucket |-> exports, key |-> refunds]) -> body
               [] slot = GrantSlot(financeRead) -> v.export
               [] slot = GrantSlot(assetsRead)  -> v.asset
               [] slot = GrantSlot(extraRead)   -> v.extra
               [] slot.kind = "workload"        -> [binds |-> [p \in PortName |-> v.bind]]
               [] slot.kind = "network_rule"    ->
                    [workload |-> engine_, port |-> admin, source_ranges |-> v.sources]
               [] OTHER -> None],
   unknown |-> FALSE, unrecognized |-> FALSE]

Everybody == ReadGrant(exports, {Anonymous}, {MCAddr})
SharedHost(v) == [v EXCEPT !.bind = n0, !.sources = Halves]

MCPlanOf == [f \in {"secure.tfvars", "routine-change.tfvars", "reviewed-exposure.tfvars",
                    "vulnerable.tfvars", "denylist.tfvars"} |->
  Resolved(CASE f = "secure.tfvars"            -> Values
             [] f = "routine-change.tfvars"    -> [Values EXCEPT !.days = days90]
             [] f = "reviewed-exposure.tfvars" -> [Values EXCEPT !.asset = ReadGrant(assets, {Anonymous}, {MCAddr})]
             [] f = "vulnerable.tfvars"        -> SharedHost([Values EXCEPT !.export = Everybody])
             [] f = "denylist.tfvars"          ->
                  SharedHost([Values EXCEPT !.extra = ReadGrant(exports, {Anonymous}, Halves)]))]

\* The overlays describe no second asset; the buckets they publish are graph
\* resources that ApplyManifestGraph does not put.
Rendered(v) ==
  [Resolved(v) EXCEPT !.st = [slot \in Slot |->
     IF slot.kind = "object" \/ slot \in {BucketSlot(assets), GrantSlot(assetsRead)}
     THEN None ELSE @[slot]]]

MCManifestOf == [o \in {"intended", "exposed"} |->
  Rendered(IF o = "intended" THEN Values ELSE SharedHost([Values EXCEPT !.export = Everybody]))]

MCArtifactOf == [a \in {"modified-anonymous-export-grant.json", "modified-unrestricted-admin.json",
                        "modified-unparsable.json", "modified-unknown-resource-type.json",
                        "modified-unrecognized-field.json"} |->
  CASE a = "modified-anonymous-export-grant.json" -> Resolved([Values EXCEPT !.export = Everybody])
    [] a = "modified-unrestricted-admin.json"     -> Resolved(SharedHost(Values))
    [] a = "modified-unparsable.json"             -> Unparsable
    [] a = "modified-unknown-resource-type.json"  -> [Resolved(Values) EXCEPT !.unknown = TRUE]
    [] a = "modified-unrecognized-field.json"     -> [Resolved(Values) EXCEPT !.unrecognized = TRUE]]

BucketRule(rule, bucket, ps, rs) ==
  [rule |-> rule, kind |-> "bucket", name |-> bucket, principals |-> ps, sources |-> rs]

MCAllowlistOf == [f \in {"default.json", "reviewed-exposure.json"} |->
  {BucketRule(exportToFinance, exports, {finance}, {Corp}),
   [rule |-> adminFromOperations, kind |-> "workload_port", name |-> <<engine_, admin>>,
    sources |-> {Operations}]}
  \cup (IF assets \notin BucketName THEN {}
        ELSE IF f = "default.json" THEN {BucketRule(assetsToFinance, assets, {finance}, {Corp})}
        ELSE {BucketRule(assetsPublic, assets, {Anonymous}, {MCAddr})})]

\* The default pipeline's container, and the one of the non-default profile.
MCEnv ==
  [r \in {secureRun, vulnerableRun} |->
     [surface |-> IF r = secureRun THEN "secure" ELSE "vulnerable", acknowledgement |-> "true"]]

Commands == {"drift", "remove-undeclared"}
AllJobs == ScenarioId \cup Commands
=============================================================================
